---- MODULE Spec2Model ----
(***************************************************************************)
(* A model of the delta-sync core of quorum-shared: the SyncService class  *)
(* (payload cache, session manager, delta builder, delta application) and  *)
(* the pure helpers of sync/utils (digests, diffs, deltas, chunking).      *)
(*                                                                         *)
(* Three specifications share the variables:                               *)
(*   SpecCache    one payload cache entry under load / upsert / remove /   *)
(*                invalidate;                                              *)
(*   SpecDelta    a sender (payloadCache, tombstones, peerEntries) building *)
(*                a sync-delta from a recipient's manifest, and the        *)
(*                recipient (rcptStorage, rcptMembers, sessions) applying  *)
(*                it payload by payload;                                   *)
(*   SpecSession  the per-space session map, its timers and the clock.     *)
(***************************************************************************)
EXTENDS Integers, Sequences, FiniteSets, TLC

VARIABLES
    storage,         \* own storage: messageId -> Message (StorageAdapter)
    storageMembers,  \* own storage: address -> SpaceMember
    payloadCache,    \* SyncService.payloadCache: cache key -> SyncPayloadCache
    lastOp,          \* name of the last operation that ran (history)
    tombstones,      \* SyncService.tombstones (sender side in SpecDelta)
    rcptManifest,    \* the manifest the recipient sent (buildSyncDelta's theirManifest)
    rcptPeerIds,     \* the peer ids the recipient sent (buildSyncDelta's theirPeerIds)
    peerEntries,     \* the sender's peer map (buildSyncDelta's ourPeerEntries)
    rcptStorage,     \* the recipient's storage: messageId -> Message
    rcptMembers,     \* the recipient's storage: address -> SpaceMember
    diff,            \* the MessageDiffResult buildSyncDelta computed (history)
    payloads,        \* the SyncDeltaPayload[] buildSyncDelta returned
    applied,         \* how many of payloads the recipient has applied
    sessions,        \* SyncService.sessions: spaceId -> SyncSession
    timers,          \* host timer queue: timer id -> pending timer
    nextTimer,       \* next timer id setTimeout hands out
    now,             \* Date.now()
    initiated,       \* onInitiateSync(spaceId, target) calls made (history)
    ret              \* what the last operation returned (history)

cacheVars == <<storage, storageMembers, payloadCache>>
deltaVars == <<tombstones, rcptManifest, rcptPeerIds, peerEntries,
               rcptStorage, rcptMembers, diff, payloads, applied>>
sessVars == <<sessions, timers, nextTimer, now, initiated>>
vars == <<cacheVars, deltaVars, sessVars, lastOp, ret>>

----------------------------------------------------------------------------
(* Bounds of the model *)

\* createdDate ranges over 1..MaxDate
MaxDate == 3

----------------------------------------------------------------------------
(* Identifiers. Space and channel ids are opaque strings, held as sequences *)
(* of characters so that string concatenation is \o.                        *)

SpaceId == <<"s">>
ChannelId == <<"c">>
OtherChannelId == <<"d">>
MessageIds == {"m1", "m2", "m3"}
Addresses == {"a1"}

----------------------------------------------------------------------------
(* Map<K, V> as a function whose DOMAIN is the key set *)

EmptyMap == <<>>

MapSet(f, k, v) == [x \in (DOMAIN f) \cup {k} |-> IF x = k THEN v ELSE f[x]]

MapDelete(f, k) == [x \in (DOMAIN f) \ {k} |-> f[x]]

\* [...map.values()]: the values as a list
RECURSIVE MapValues(_)
MapValues(f) ==
    IF DOMAIN f = {} THEN <<>>
    ELSE LET k == CHOOSE x \in DOMAIN f : TRUE
         IN  <<f[k]>> \o MapValues(MapDelete(f, k))

\* new Map(list.map(x => [key(x), x])): a later entry replaces an earlier one
RECURSIVE MapFromList(_, _)
MapFromList(list, field) ==
    IF list = <<>> THEN EmptyMap
    ELSE LET rest == MapFromList(SubSeq(list, 1, Len(list) - 1), field)
             x == list[Len(list)]
         IN  MapSet(rest, x[field], x)

SeqToSet(s) == {s[i] : i \in 1..Len(s)}

\* Array.prototype.filter
RECURSIVE SelectSeqBy(_, _)
SelectSeqBy(s, S) ==
    IF s = <<>> THEN <<>>
    ELSE (IF Head(s) \in S THEN <<Head(s)>> ELSE <<>>) \o SelectSeqBy(Tail(s), S)

----------------------------------------------------------------------------
(* Messages and members *)

Reaction(emojiId, memberIds) ==
    [emojiId |-> emojiId, emojiName |-> emojiId, spaceId |-> SpaceId,
     count |-> Len(memberIds), memberIds |-> memberIds]

\* The text of a post, and what the message weighs once serialized; "big" is
\* a body larger than a whole chunk.
Texts == {"a", "b", "big"}

\* A message of (SpaceId, channel ch). Version "a" is the message as posted;
\* "b" is an edit of it (later modifiedDate) that also carries a reaction;
\* "b0" has the text of "b" under the original modifiedDate and another
\* member's reaction; "big" is an oversized body.
Msg(id, ch, created, ver) ==
    [messageId |-> id, spaceId |-> SpaceId, channelId |-> ch,
     createdDate |-> created,
     modifiedDate |-> IF ver = "b" THEN created + 1 ELSE created,
     content |-> [senderId |-> "sender", type |-> "post",
                  text |-> IF ver = "b0" THEN "b" ELSE ver],
     reactions |-> CASE ver = "b" -> <<Reaction("e1", <<"u1">>)>>
                     [] ver = "b0" -> <<Reaction("e1", <<"u2">>)>>
                     [] OTHER -> <<>>]

Member(addr, name) ==
    [address |-> addr, inbox_address |-> <<"inbox-", addr>>,
     display_name |-> name, profile_image |-> ""]

----------------------------------------------------------------------------
(* Hashes *)

\* computeHash: SHA-256 of a string, hex encoded. Modelled as an injective
\* tag of the hashed data (no collisions).
computeHash(data) == <<"sha256", data>>

\* content.repliesToMessageId, an optional property: "" when it is absent
repliesTo(content) ==
    IF "repliesToMessageId" \in DOMAIN content THEN content.repliesToMessageId ELSE ""

\* The suffix appended when the message is a reply
replySuffix(content) ==
    IF repliesTo(content) # "" THEN <<":reply:", repliesTo(content)>> ELSE <<>>

\* The switch has no default branch: a content type that matches no case
\* leaves the canonical string at senderId:type, and it is hashed like the
\* others.
computeContentHash(message) ==
    LET content == message.content
        canonical == <<content.senderId, ":", content.type>>
    IN  CASE content.type = "post" ->
                 computeHash(canonical \o <<":", content.text>> \o replySuffix(content))
          [] content.type = "embed" ->
                 computeHash(canonical \o <<":", content.imageUrl, ":", content.videoUrl>>
                             \o replySuffix(content))
          [] content.type = "sticker" ->
                 computeHash(canonical \o <<":", content.stickerId>> \o replySuffix(content))
          [] content.type = "edit-message" ->
                 computeHash(canonical \o <<":", content.originalMessageId, ":",
                                            content.editedText, ":", content.editedAt>>)
          [] content.type = "remove-message" ->
                 computeHash(canonical \o <<":", content.removeMessageId>>)
          [] content.type \in {"join", "leave", "kick"} -> computeHash(canonical)
          [] content.type = "event" ->
                 computeHash(canonical \o <<":", content.text>>)
          [] content.type = "update-profile" ->
                 computeHash(canonical \o <<":", content.displayName, ":", content.userIcon>>)
          [] content.type = "mute" ->
                 computeHash(canonical \o <<":", content.targetUserId, ":", content.action,
                                            ":", content.muteId>>)
          [] content.type = "pin" ->
                 computeHash(canonical \o <<":", content.targetMessageId, ":", content.action>>)
          [] content.type \in {"reaction", "remove-reaction"} ->
                 computeHash(canonical \o <<":", content.messageId, ":", content.reaction>>)
          [] content.type = "delete-conversation" -> computeHash(canonical)
          [] OTHER -> computeHash(canonical)

computeMemberHash(member) ==
    [displayNameHash |-> computeHash(member.display_name),
     iconHash |-> computeHash(member.profile_image)]

HASH_LEN == 32

\* sha256(new TextEncoder().encode(messageId)): the real digests of the ids
hashMessageId(messageId) ==
    CASE messageId = "m1" ->
           <<202, 13, 242, 201, 90, 161, 68, 193, 208, 255, 47, 243, 200, 249,
             103, 253, 193, 222, 158, 240, 196, 18, 11, 55, 38, 65, 103, 1,
             181, 25, 214, 25>>
      [] messageId = "m2" ->
           <<41, 193, 178, 137, 231, 82, 33, 149, 179, 98, 228, 79, 84, 224,
             84, 112, 182, 154, 210, 5, 64, 171, 96, 161, 138, 5, 229, 191,
             105, 81, 241, 61>>
      [] messageId = "m3" ->
           <<21, 56, 18, 174, 95, 234, 11, 115, 160, 17, 191, 40, 189, 124,
             234, 147, 100, 68, 55, 195, 254, 50, 96, 183, 178, 215, 225, 226,
             249, 244, 107, 222>>

\* a ^ b on bytes
RECURSIVE BitXor(_, _)
BitXor(a, b) ==
    IF a = 0 THEN b
    ELSE IF b = 0 THEN a
    ELSE (((a % 2) + (b % 2)) % 2) + (2 * BitXor(a \div 2, b \div 2))

xorIntoHash(accumulator, hash) ==
    [i \in 1..HASH_LEN |-> BitXor(accumulator[i], hash[i])]

ZeroHash == [i \in 1..HASH_LEN |-> 0]

HexDigit(n) ==
    LET digits == <<"0", "1", "2", "3", "4", "5", "6", "7", "8", "9",
                    "a", "b", "c", "d", "e", "f">>
    IN  digits[n + 1]

\* b.toString(16).padStart(2, '0') for every byte, joined
RECURSIVE bytesToHex(_)
bytesToHex(bytes) ==
    IF bytes = <<>> THEN <<>>
    ELSE <<HexDigit((Head(bytes)) \div 16), HexDigit((Head(bytes)) % 16)>>
         \o bytesToHex(Tail(bytes))

----------------------------------------------------------------------------
(* Digests *)

NoDate == 0

createMessageDigest(message) ==
    [messageId |-> message.messageId,
     createdDate |-> message.createdDate,
     contentHash |-> computeContentHash(message),
     modifiedDate |-> IF message.modifiedDate # message.createdDate
                      THEN message.modifiedDate ELSE NoDate]

createMemberDigest(member) ==
    LET h == computeMemberHash(member)
    IN  [address |-> member.address,
         inboxAddress |-> member.inbox_address,
         displayNameHash |-> h.displayNameHash,
         iconHash |-> h.iconHash]

createReactionDigest(messageId, reactions) ==
    [i \in 1..Len(reactions) |->
        [messageId |-> messageId,
         emojiId |-> reactions[i].emojiId,
         count |-> reactions[i].count,
         membersHash |-> computeHash(SeqToSet(reactions[i].memberIds))]]

----------------------------------------------------------------------------
(* Payload cache *)

getCacheKey(spaceId, channelId) == spaceId \o <<":">> \o channelId

Key == getCacheKey(SpaceId, ChannelId)

Infinity == MaxDate + 1000

RECURSIVE OldestOf(_, _)
OldestOf(messages, acc) ==
    IF messages = <<>> THEN acc
    ELSE OldestOf(Tail(messages),
                  IF Head(messages).createdDate < acc
                  THEN Head(messages).createdDate ELSE acc)

RECURSIVE NewestOf(_, _)
NewestOf(messages, acc) ==
    IF messages = <<>> THEN acc
    ELSE NewestOf(Tail(messages),
                  IF Head(messages).createdDate > acc
                  THEN Head(messages).createdDate ELSE acc)

RECURSIVE XorAll(_, _)
XorAll(messages, acc) ==
    IF messages = <<>> THEN acc
    ELSE XorAll(Tail(messages), xorIntoHash(acc, hashMessageId(Head(messages).messageId)))

buildPayloadCache(spaceId, channelId, messages, members) ==
    LET messageMap == MapFromList(messages, "messageId")
        memberMap == MapFromList(members, "address")
    IN  [spaceId |-> spaceId,
         channelId |-> channelId,
         messageMap |-> messageMap,
         memberMap |-> memberMap,
         digestMap |-> [id \in DOMAIN messageMap |-> createMessageDigest(messageMap[id])],
         memberDigestMap |-> [a \in DOMAIN memberMap |-> createMemberDigest(memberMap[a])],
         oldestTimestamp |-> IF Len(messages) = 0 THEN 0 ELSE OldestOf(messages, Infinity),
         newestTimestamp |-> NewestOf(messages, 0),
         manifestHashBytes |-> XorAll(messages, ZeroHash)]

getManifestHash(cache) == bytesToHex(cache.manifestHashBytes)

getSummary(cache) ==
    [memberCount |-> Cardinality(DOMAIN cache.memberDigestMap),
     messageCount |-> Cardinality(DOMAIN cache.digestMap),
     newestMessageTimestamp |-> cache.newestTimestamp,
     oldestMessageTimestamp |-> cache.oldestTimestamp,
     manifestHash |-> getManifestHash(cache)]

getMemberDigests(cache) == MapValues(cache.memberDigestMap)

\* storage.getMessages({spaceId, channelId, limit: maxMessages}); the stored
\* channel never holds more than maxMessages (1000) messages here.
getChannelMessages(store, spaceId, channelId) ==
    MapValues([id \in {x \in DOMAIN store :
                          /\ store[x].spaceId = spaceId
                          /\ store[x].channelId = channelId} |-> store[id]])

\* getPayloadCache that loads from storage on every call
getPayloadCacheAlwaysLoad(pc, store, members, spaceId, channelId) ==
    MapSet(pc, getCacheKey(spaceId, channelId),
           buildPayloadCache(spaceId, channelId,
                             getChannelMessages(store, spaceId, channelId),
                             MapValues(members)))

\* The cache map after getPayloadCache(spaceId, channelId)
getPayloadCache(pc, store, members, spaceId, channelId) ==
    LET key == getCacheKey(spaceId, channelId)
    IN  IF key \in DOMAIN pc THEN pc
        ELSE MapSet(pc, key,
                    buildPayloadCache(spaceId, channelId,
                                      getChannelMessages(store, spaceId, channelId),
                                      MapValues(members)))

recalculateTimestamps(cache) ==
    LET msgs == MapValues(cache.messageMap)
    IN  [cache EXCEPT
            !.oldestTimestamp = IF DOMAIN cache.messageMap = {} THEN 0
                                ELSE OldestOf(msgs, Infinity),
            !.newestTimestamp = NewestOf(msgs, 0)]

\* updateCacheWithMessage without the isNew test: the id hash is XORed in on
\* every upsert
updateCacheWithMessageAlwaysXor(pc, spaceId, channelId, message) ==
    LET key == getCacheKey(spaceId, channelId)
    IN  IF key \notin DOMAIN pc THEN pc
        ELSE [pc EXCEPT ![key] =
                [@ EXCEPT
                   !.messageMap = MapSet(@, message.messageId, message),
                   !.digestMap = MapSet(@, message.messageId, createMessageDigest(message)),
                   !.oldestTimestamp = IF message.createdDate < @
                                       THEN message.createdDate ELSE @,
                   !.newestTimestamp = IF message.createdDate > @
                                       THEN message.createdDate ELSE @,
                   !.manifestHashBytes = xorIntoHash(@, hashMessageId(message.messageId))]]

\* updateCacheWithMessage that keeps the digest of a message already cached
updateCacheWithMessageKeepDigest(pc, spaceId, channelId, message) ==
    LET key == getCacheKey(spaceId, channelId)
    IN  IF key \notin DOMAIN pc THEN pc
        ELSE LET cached == pc[key]
                 isNew == message.messageId \notin DOMAIN cached.messageMap
             IN  [pc EXCEPT ![key] =
                    [cached EXCEPT
                       !.messageMap = MapSet(@, message.messageId, message),
                       !.digestMap = IF isNew
                                     THEN MapSet(@, message.messageId,
                                                 createMessageDigest(message))
                                     ELSE @,
                       !.oldestTimestamp = IF message.createdDate < @
                                           THEN message.createdDate ELSE @,
                       !.newestTimestamp = IF message.createdDate > @
                                           THEN message.createdDate ELSE @,
                       !.manifestHashBytes =
                           IF isNew THEN xorIntoHash(@, hashMessageId(message.messageId))
                           ELSE @]]

\* updateCacheWithMessage that leaves the timestamps as they are
updateCacheWithMessageNoTimestamps(pc, spaceId, channelId, message) ==
    LET key == getCacheKey(spaceId, channelId)
    IN  IF key \notin DOMAIN pc THEN pc
        ELSE LET cached == pc[key]
                 isNew == message.messageId \notin DOMAIN cached.messageMap
             IN  [pc EXCEPT ![key] =
                    [cached EXCEPT
                       !.messageMap = MapSet(@, message.messageId, message),
                       !.digestMap = MapSet(@, message.messageId, createMessageDigest(message)),
                       !.manifestHashBytes =
                           IF isNew THEN xorIntoHash(@, hashMessageId(message.messageId))
                           ELSE @]]

updateCacheWithMessage(pc, spaceId, channelId, message) ==
    LET key == getCacheKey(spaceId, channelId)
    IN  IF key \notin DOMAIN pc THEN pc
        ELSE LET cached == pc[key]
                 isNew == message.messageId \notin DOMAIN cached.messageMap
             IN  [pc EXCEPT ![key] =
                    [cached EXCEPT
                       !.messageMap = MapSet(@, message.messageId, message),
                       !.digestMap = MapSet(@, message.messageId, createMessageDigest(message)),
                       !.oldestTimestamp = IF message.createdDate < @
                                           THEN message.createdDate ELSE @,
                       !.newestTimestamp = IF message.createdDate > @
                                           THEN message.createdDate ELSE @,
                       !.manifestHashBytes =
                           IF isNew THEN xorIntoHash(@, hashMessageId(message.messageId))
                           ELSE @]]

\* removeCacheMessage without the XOR of the removed id
removeCacheMessageKeepHash(pc, spaceId, channelId, messageId) ==
    LET key == getCacheKey(spaceId, channelId)
    IN  IF key \notin DOMAIN pc THEN pc
        ELSE LET cached == pc[key]
             IN  IF messageId \notin DOMAIN cached.messageMap THEN pc
                 ELSE LET message == cached.messageMap[messageId]
                          removed == [cached EXCEPT
                                        !.messageMap = MapDelete(@, messageId),
                                        !.digestMap = MapDelete(@, messageId)]
                      IN  [pc EXCEPT ![key] =
                             IF \/ message.createdDate = cached.oldestTimestamp
                                \/ message.createdDate = cached.newestTimestamp
                             THEN recalculateTimestamps(removed)
                             ELSE removed]

\* removeCacheMessage that never recalculates the timestamps
removeCacheMessageNoRecalc(pc, spaceId, channelId, messageId) ==
    LET key == getCacheKey(spaceId, channelId)
    IN  IF key \notin DOMAIN pc THEN pc
        ELSE LET cached == pc[key]
             IN  IF messageId \notin DOMAIN cached.messageMap THEN pc
                 ELSE [pc EXCEPT ![key] =
                         [cached EXCEPT
                            !.messageMap = MapDelete(@, messageId),
                            !.digestMap = MapDelete(@, messageId),
                            !.manifestHashBytes =
                                xorIntoHash(@, hashMessageId(messageId))]]

removeCacheMessage(pc, spaceId, channelId, messageId) ==
    LET key == getCacheKey(spaceId, channelId)
    IN  IF key \notin DOMAIN pc THEN pc
        ELSE LET cached == pc[key]
             IN  IF messageId \notin DOMAIN cached.messageMap THEN pc
                 ELSE LET message == cached.messageMap[messageId]
                          removed == [cached EXCEPT
                                        !.messageMap = MapDelete(@, messageId),
                                        !.digestMap = MapDelete(@, messageId),
                                        !.manifestHashBytes =
                                            xorIntoHash(@, hashMessageId(messageId))]
                      IN  [pc EXCEPT ![key] =
                             IF \/ message.createdDate = cached.oldestTimestamp
                                \/ message.createdDate = cached.newestTimestamp
                             THEN recalculateTimestamps(removed)
                             ELSE removed]

updateCacheWithMember(pc, spaceId, channelId, member) ==
    LET key == getCacheKey(spaceId, channelId)
    IN  IF key \notin DOMAIN pc THEN pc
        ELSE [pc EXCEPT ![key] =
                [@ EXCEPT
                   !.memberMap = MapSet(@, member.address, member),
                   !.memberDigestMap = MapSet(@, member.address, createMemberDigest(member))]]

invalidateCache(pc, spaceId, channelId) == MapDelete(pc, getCacheKey(spaceId, channelId))

\* key.startsWith(prefix)
startsWith(key, prefix) ==
    Len(key) >= Len(prefix) /\ SubSeq(key, 1, Len(prefix)) = prefix

\* invalidateCache(spaceId) without a channelId: every key that starts with
\* `${spaceId}:` is deleted
invalidateCacheOfSpace(pc, spaceId) ==
    [k \in {x \in DOMAIN pc : ~startsWith(x, spaceId \o <<":">>)} |-> pc[k]]

\* digests.sort((a, b) => a.createdDate - b.createdDate): a stable sort
RECURSIVE InsertByCreatedDate(_, _)
InsertByCreatedDate(sorted, d) ==
    IF sorted = <<>> THEN <<d>>
    ELSE IF sorted[Len(sorted)].createdDate <= d.createdDate THEN Append(sorted, d)
    ELSE Append(InsertByCreatedDate(SubSeq(sorted, 1, Len(sorted) - 1), d),
                sorted[Len(sorted)])

RECURSIVE SortByCreatedDate(_)
SortByCreatedDate(list) ==
    IF list = <<>> THEN <<>>
    ELSE InsertByCreatedDate(SortByCreatedDate(SubSeq(list, 1, Len(list) - 1)),
                             list[Len(list)])

RECURSIVE CollectReactionDigests(_)
CollectReactionDigests(messages) ==
    IF messages = <<>> THEN <<>>
    ELSE LET msg == Head(messages)
         IN  (IF Len(msg.reactions) > 0
              THEN createReactionDigest(msg.messageId, msg.reactions) ELSE <<>>)
             \o CollectReactionDigests(Tail(messages))

getManifest(cache) ==
    [spaceId |-> cache.spaceId,
     channelId |-> cache.channelId,
     messageCount |-> Cardinality(DOMAIN cache.digestMap),
     oldestTimestamp |-> cache.oldestTimestamp,
     newestTimestamp |-> cache.newestTimestamp,
     digests |-> SortByCreatedDate(MapValues(cache.digestMap)),
     reactionDigests |-> CollectReactionDigests(MapValues(cache.messageMap))]

----------------------------------------------------------------------------
(* Diffs (sync/utils) *)

\* The keys of new Map(list.map(d => [d[field], d])) in iteration order: a
\* key keeps the place of its first occurrence.
RECURSIVE KeysInOrder(_, _)
KeysInOrder(list, field) ==
    IF list = <<>> THEN <<>>
    ELSE LET rest == KeysInOrder(SubSeq(list, 1, Len(list) - 1), field)
             k == list[Len(list)][field]
         IN  IF k \in SeqToSet(rest) THEN rest ELSE Append(rest, k)

\* d.modifiedDate || d.createdDate
ModifiedOf(d) == IF d.modifiedDate # NoDate THEN d.modifiedDate ELSE d.createdDate

\* computeMessageDiff that reports every id whose contentHash differs as
\* outdated, whichever copy is newer
computeMessageDiffAnyChange(ourManifest, theirManifest) ==
    LET ourDigests == MapFromList(ourManifest.digests, "messageId")
        theirDigests == MapFromList(theirManifest.digests, "messageId")
        ourIds == KeysInOrder(ourManifest.digests, "messageId")
        theirIds == KeysInOrder(theirManifest.digests, "messageId")
    IN  [missingIds |-> SelectSeqBy(theirIds, {id \in DOMAIN theirDigests :
                                                  id \notin DOMAIN ourDigests}),
         outdatedIds |->
            SelectSeqBy(theirIds,
                {id \in DOMAIN theirDigests :
                    /\ id \in DOMAIN ourDigests
                    /\ ourDigests[id].contentHash # theirDigests[id].contentHash}),
         extraIds |-> SelectSeqBy(ourIds, {id \in DOMAIN ourDigests :
                                              id \notin DOMAIN theirDigests})]

computeMessageDiff(ourManifest, theirManifest) ==
    LET ourDigests == MapFromList(ourManifest.digests, "messageId")
        theirDigests == MapFromList(theirManifest.digests, "messageId")
        ourIds == KeysInOrder(ourManifest.digests, "messageId")
        theirIds == KeysInOrder(theirManifest.digests, "messageId")
    IN  [missingIds |-> SelectSeqBy(theirIds, {id \in DOMAIN theirDigests :
                                                  id \notin DOMAIN ourDigests}),
         outdatedIds |->
            SelectSeqBy(theirIds,
                {id \in DOMAIN theirDigests :
                    /\ id \in DOMAIN ourDigests
                    /\ ourDigests[id].contentHash # theirDigests[id].contentHash
                    /\ ModifiedOf(theirDigests[id]) > ModifiedOf(ourDigests[id])}),
         extraIds |-> SelectSeqBy(ourIds, {id \in DOMAIN ourDigests :
                                              id \notin DOMAIN theirDigests})]

computeMemberDiff(ourDigests, theirDigests) ==
    LET ourMap == MapFromList(ourDigests, "address")
        theirMap == MapFromList(theirDigests, "address")
        ourAddrs == KeysInOrder(ourDigests, "address")
        theirAddrs == KeysInOrder(theirDigests, "address")
    IN  [missingAddresses |-> SelectSeqBy(theirAddrs, {a \in DOMAIN theirMap :
                                                          a \notin DOMAIN ourMap}),
         outdatedAddresses |->
            SelectSeqBy(theirAddrs,
                {a \in DOMAIN theirMap :
                    /\ a \in DOMAIN ourMap
                    /\ \/ ourMap[a].displayNameHash # theirMap[a].displayNameHash
                       \/ ourMap[a].iconHash # theirMap[a].iconHash}),
         extraAddresses |-> SelectSeqBy(ourAddrs, {a \in DOMAIN ourMap :
                                                      a \notin DOMAIN theirMap})]

computePeerDiff(ourPeerIds, theirPeerIds) ==
    [missingPeerIds |-> SelectSeqBy(theirPeerIds, SeqToSet(theirPeerIds) \ SeqToSet(ourPeerIds)),
     extraPeerIds |-> SelectSeqBy(ourPeerIds, SeqToSet(ourPeerIds) \ SeqToSet(theirPeerIds))]

----------------------------------------------------------------------------
(* Delta building and chunking (sync/utils) *)

\* ids.map(id => map.get(id)).filter(x => x !== undefined)
RECURSIVE LookupAll(_, _)
LookupAll(ids, map) ==
    IF ids = <<>> THEN <<>>
    ELSE (IF Head(ids) \in DOMAIN map THEN <<map[Head(ids)]>> ELSE <<>>)
         \o LookupAll(Tail(ids), map)

RECURSIVE TombstoneIds(_, _, _)
TombstoneIds(tombs, spaceId, channelId) ==
    IF tombs = <<>> THEN <<>>
    ELSE (IF Head(tombs).spaceId = spaceId /\ Head(tombs).channelId = channelId
          THEN <<Head(tombs).messageId>> ELSE <<>>)
         \o TombstoneIds(Tail(tombs), spaceId, channelId)

buildMessageDelta(spaceId, channelId, d, messageMap, tombs) ==
    [spaceId |-> spaceId,
     channelId |-> channelId,
     newMessages |-> LookupAll(d.extraIds, messageMap),
     updatedMessages |-> LookupAll(d.outdatedIds, messageMap),
     deletedMessageIds |-> TombstoneIds(tombs, spaceId, channelId)]

RECURSIVE ReactionsAdded(_, _)
ReactionsAdded(messageIds, messageMap) ==
    IF messageIds = <<>> THEN <<>>
    ELSE LET messageId == Head(messageIds)
         IN  (IF messageId \in DOMAIN messageMap
              THEN [i \in 1..Len(messageMap[messageId].reactions) |->
                       [messageId |-> messageId,
                        emojiId |-> messageMap[messageId].reactions[i].emojiId,
                        memberIds |-> messageMap[messageId].reactions[i].memberIds]]
              ELSE <<>>)
             \o ReactionsAdded(Tail(messageIds), messageMap)

buildReactionDelta(spaceId, channelId, messageMap, messageIds) ==
    [spaceId |-> spaceId,
     channelId |-> channelId,
     added |-> ReactionsAdded(messageIds, messageMap),
     removed |-> <<>>]

\* buildMemberDelta that sends only the members the recipient lacks
buildMemberDeltaMissingOnly(spaceId, d, memberMap) ==
    [spaceId |-> spaceId,
     members |-> LookupAll(d.missingAddresses, memberMap),
     removedAddresses |-> <<>>]

buildMemberDelta(spaceId, d, memberMap) ==
    [spaceId |-> spaceId,
     members |-> LookupAll(d.missingAddresses \o d.outdatedAddresses, memberMap),
     removedAddresses |-> <<>>]

\* MAX_CHUNK_SIZE and the serialized sizes are counted in MiB
MAX_CHUNK_SIZE == 5

\* JSON.stringify(msg).length: the text of the post decides it
jsonSize(msg) ==
    CASE msg.content.text = "a" -> 2
      [] msg.content.text = "b" -> 3
      [] msg.content.text = "big" -> 6

RECURSIVE chunkLoop(_, _, _, _)
chunkLoop(messages, chunks, currentChunk, currentSize) ==
    IF messages = <<>>
    THEN IF Len(currentChunk) > 0 THEN Append(chunks, currentChunk) ELSE chunks
    ELSE LET msg == Head(messages)
             msgSize == jsonSize(msg)
         IN  IF msgSize > MAX_CHUNK_SIZE
             THEN IF Len(currentChunk) > 0
                  THEN chunkLoop(Tail(messages),
                                 Append(Append(chunks, currentChunk), <<msg>>), <<>>, 0)
                  ELSE chunkLoop(Tail(messages), Append(chunks, <<msg>>),
                                 currentChunk, currentSize)
             ELSE IF currentSize + msgSize > MAX_CHUNK_SIZE /\ Len(currentChunk) > 0
                  THEN chunkLoop(Tail(messages), Append(chunks, currentChunk),
                                 <<msg>>, msgSize)
                  ELSE chunkLoop(Tail(messages), chunks,
                                 Append(currentChunk, msg), currentSize + msgSize)

\* chunkMessages that leaves out the messages larger than a chunk
chunkMessagesDropOversized(messages) ==
    chunkLoop(SelectSeq(messages, LAMBDA m : jsonSize(m) <= MAX_CHUNK_SIZE), <<>>, <<>>, 0)

\* chunkMessages that closes the chunk after every message
chunkMessagesOneEach(messages) == [i \in 1..Len(messages) |-> <<messages[i]>>]

\* chunkMessages without the push of the chunk still open when the loop ends
chunkMessagesNoFlush(messages) ==
    LET chunks == chunkLoop(messages, <<>>, <<>>, 0)
    IN  IF messages = <<>> \/ jsonSize(messages[Len(messages)]) > MAX_CHUNK_SIZE
        THEN chunks
        ELSE SubSeq(chunks, 1, Len(chunks) - 1)

chunkMessages(messages) == chunkLoop(messages, <<>>, <<>>, 0)

----------------------------------------------------------------------------
(* buildSyncDelta (SyncService) *)

\* An optional field: <<>> when undefined, <<x>> when set
None == <<>>

Some(x) == <<x>>

RECURSIVE MapKeys(_)
MapKeys(f) ==
    IF DOMAIN f = {} THEN <<>>
    ELSE LET k == CHOOSE x \in DOMAIN f : TRUE
         IN  <<k>> \o MapKeys(MapDelete(f, k))

RECURSIVE SelectMessages(_, _)
SelectMessages(chunk, ids) ==
    IF chunk = <<>> THEN <<>>
    ELSE (IF Head(chunk).messageId \in SeqToSet(ids) THEN <<Head(chunk)>> ELSE <<>>)
         \o SelectMessages(Tail(chunk), ids)

\* The payloads of the message chunks with the tombstoned ids and the
\* reaction delta attached to every chunk
ChunkPayloadsEveryChunk(spaceId, channelId, chunks, messageDiff, messageDelta, reactionDelta) ==
    [i \in 1..Len(chunks) |->
        [type |-> "sync-delta",
         messageDelta |->
            Some([spaceId |-> spaceId,
                  channelId |-> channelId,
                  newMessages |-> SelectMessages(chunks[i], messageDiff.extraIds),
                  updatedMessages |-> SelectMessages(chunks[i], messageDiff.outdatedIds),
                  deletedMessageIds |-> messageDelta.deletedMessageIds]),
         reactionDelta |-> IF Len(reactionDelta.added) > 0
                           THEN Some(reactionDelta) ELSE None,
         memberDelta |-> None,
         peerMapDelta |-> None,
         isFinal |-> FALSE]]

\* The payloads of the message chunks (lines 700-727), all with isFinal false
ChunkPayloads(spaceId, channelId, chunks, messageDiff, messageDelta, reactionDelta) ==
    [i \in 1..Len(chunks) |->
        LET isLast == (i = Len(chunks))
        IN  [type |-> "sync-delta",
             messageDelta |->
                Some([spaceId |-> spaceId,
                      channelId |-> channelId,
                      newMessages |-> SelectMessages(chunks[i], messageDiff.extraIds),
                      updatedMessages |-> SelectMessages(chunks[i], messageDiff.outdatedIds),
                      deletedMessageIds |-> IF isLast THEN messageDelta.deletedMessageIds
                                            ELSE <<>>]),
             reactionDelta |-> IF isLast /\ Len(reactionDelta.added) > 0
                               THEN Some(reactionDelta) ELSE None,
             memberDelta |-> None,
             peerMapDelta |-> None,
             isFinal |-> FALSE]]

\* buildSyncDelta without lines 741-752: the last message chunk is never
\* marked final and no empty final payload is made
buildSyncDeltaNoFinalMark(cache, tombs, spaceId, channelId, theirManifest, theirMemberDigests, theirPeerIds, ourPeerEntries) ==
    LET ourPeerIds == MapKeys(ourPeerEntries)
        messageDiff == computeMessageDiff(getManifest(cache), theirManifest)
        memberDiff == computeMemberDiff(theirMemberDigests, getMemberDigests(cache))
        peerDiff == computePeerDiff(theirPeerIds, ourPeerIds)
        messageDelta == buildMessageDelta(spaceId, channelId, messageDiff,
                                          cache.messageMap, tombs)
        reactionDelta == buildReactionDelta(spaceId, channelId, cache.messageMap,
                                            messageDiff.extraIds \o messageDiff.outdatedIds)
        memberDelta == buildMemberDelta(spaceId, memberDiff, cache.memberMap)
        peerMapDelta == [spaceId |-> spaceId,
                         added |-> LookupAll(peerDiff.extraPeerIds, ourPeerEntries),
                         updated |-> <<>>,
                         removed |-> <<>>]
        allMessages == messageDelta.newMessages \o messageDelta.updatedMessages
        chunked == IF Len(allMessages) > 0
                   THEN ChunkPayloads(spaceId, channelId, chunkMessages(allMessages),
                                      messageDiff, messageDelta, reactionDelta)
                   ELSE <<>>
        trailing == [type |-> "sync-delta",
                     messageDelta |-> None,
                     reactionDelta |-> None,
                     memberDelta |-> IF Len(memberDelta.members) > 0
                                     THEN Some(memberDelta) ELSE None,
                     peerMapDelta |-> IF Len(peerMapDelta.added) > 0
                                      THEN Some(peerMapDelta) ELSE None,
                     isFinal |-> TRUE]
    IN  IF \/ Len(memberDelta.members) > 0
           \/ Len(peerMapDelta.added) > 0
           \/ Len(allMessages) = 0
        THEN Append(chunked, trailing)
        ELSE chunked

\* buildSyncDelta that appends the trailing payload whatever the deltas hold
buildSyncDeltaAlwaysTrailing(cache, tombs, spaceId, channelId, theirManifest, theirMemberDigests, theirPeerIds, ourPeerEntries) ==
    LET ourPeerIds == MapKeys(ourPeerEntries)
        messageDiff == computeMessageDiff(getManifest(cache), theirManifest)
        memberDiff == computeMemberDiff(theirMemberDigests, getMemberDigests(cache))
        peerDiff == computePeerDiff(theirPeerIds, ourPeerIds)
        messageDelta == buildMessageDelta(spaceId, channelId, messageDiff,
                                          cache.messageMap, tombs)
        reactionDelta == buildReactionDelta(spaceId, channelId, cache.messageMap,
                                            messageDiff.extraIds \o messageDiff.outdatedIds)
        memberDelta == buildMemberDelta(spaceId, memberDiff, cache.memberMap)
        peerMapDelta == [spaceId |-> spaceId,
                         added |-> LookupAll(peerDiff.extraPeerIds, ourPeerEntries),
                         updated |-> <<>>,
                         removed |-> <<>>]
        allMessages == messageDelta.newMessages \o messageDelta.updatedMessages
        chunked == IF Len(allMessages) > 0
                   THEN ChunkPayloads(spaceId, channelId, chunkMessages(allMessages),
                                      messageDiff, messageDelta, reactionDelta)
                   ELSE <<>>
        trailing == [type |-> "sync-delta",
                     messageDelta |-> None,
                     reactionDelta |-> None,
                     memberDelta |-> IF Len(memberDelta.members) > 0
                                     THEN Some(memberDelta) ELSE None,
                     peerMapDelta |-> IF Len(peerMapDelta.added) > 0
                                      THEN Some(peerMapDelta) ELSE None,
                     isFinal |-> TRUE]
        payloads1 == IF TRUE
                     THEN Append(chunked, trailing)
                     ELSE IF Len(chunked) > 0
                     THEN [chunked EXCEPT ![Len(chunked)].isFinal = TRUE]
                     ELSE chunked
    IN  IF Len(payloads1) = 0
        THEN <<[type |-> "sync-delta", messageDelta |-> None, reactionDelta |-> None,
                memberDelta |-> None, peerMapDelta |-> None, isFinal |-> TRUE]>>
        ELSE payloads1

buildSyncDelta(cache, tombs, spaceId, channelId, theirManifest, theirMemberDigests, theirPeerIds, ourPeerEntries) ==
    LET ourPeerIds == MapKeys(ourPeerEntries)
        messageDiff == computeMessageDiff(getManifest(cache), theirManifest)
        memberDiff == computeMemberDiff(theirMemberDigests, getMemberDigests(cache))
        peerDiff == computePeerDiff(theirPeerIds, ourPeerIds)
        messageDelta == buildMessageDelta(spaceId, channelId, messageDiff,
                                          cache.messageMap, tombs)
        reactionDelta == buildReactionDelta(spaceId, channelId, cache.messageMap,
                                            messageDiff.extraIds \o messageDiff.outdatedIds)
        memberDelta == buildMemberDelta(spaceId, memberDiff, cache.memberMap)
        peerMapDelta == [spaceId |-> spaceId,
                         added |-> LookupAll(peerDiff.extraPeerIds, ourPeerEntries),
                         updated |-> <<>>,
                         removed |-> <<>>]
        allMessages == messageDelta.newMessages \o messageDelta.updatedMessages
        chunked == IF Len(allMessages) > 0
                   THEN ChunkPayloads(spaceId, channelId, chunkMessages(allMessages),
                                      messageDiff, messageDelta, reactionDelta)
                   ELSE <<>>
        trailing == [type |-> "sync-delta",
                     messageDelta |-> None,
                     reactionDelta |-> None,
                     memberDelta |-> IF Len(memberDelta.members) > 0
                                     THEN Some(memberDelta) ELSE None,
                     peerMapDelta |-> IF Len(peerMapDelta.added) > 0
                                      THEN Some(peerMapDelta) ELSE None,
                     isFinal |-> TRUE]
        payloads1 == IF \/ Len(memberDelta.members) > 0
                        \/ Len(peerMapDelta.added) > 0
                        \/ Len(allMessages) = 0
                     THEN Append(chunked, trailing)
                     ELSE IF Len(chunked) > 0
                     THEN [chunked EXCEPT ![Len(chunked)].isFinal = TRUE]
                     ELSE chunked
    IN  IF Len(payloads1) = 0
        THEN <<[type |-> "sync-delta", messageDelta |-> None, reactionDelta |-> None,
                memberDelta |-> None, peerMapDelta |-> None, isFinal |-> TRUE]>>
        ELSE payloads1

----------------------------------------------------------------------------
(* Delta application (SyncService) against a storage keyed by messageId *)

saveMessage(store, msg) == MapSet(store, msg.messageId, msg)

deleteMessage(store, messageId) == MapDelete(store, messageId)

\* storage.getMessage({spaceId, channelId, messageId}): None when absent
getMessage(store, spaceId, channelId, messageId) ==
    IF /\ messageId \in DOMAIN store
       /\ store[messageId].spaceId = spaceId
       /\ store[messageId].channelId = channelId
    THEN Some(store[messageId]) ELSE None

RECURSIVE SaveAll(_, _)
SaveAll(store, msgs) ==
    IF msgs = <<>> THEN store ELSE SaveAll(saveMessage(store, Head(msgs)), Tail(msgs))

RECURSIVE DeleteAll(_, _)
DeleteAll(store, ids) ==
    IF ids = <<>> THEN store ELSE DeleteAll(deleteMessage(store, Head(ids)), Tail(ids))

\* applyMessageDelta without the loop over updatedMessages
applyMessageDeltaSkipUpdated(store, delta) ==
    DeleteAll(SaveAll(store, delta.newMessages), delta.deletedMessageIds)

applyMessageDelta(store, delta) ==
    DeleteAll(SaveAll(SaveAll(store, delta.newMessages), delta.updatedMessages),
              delta.deletedMessageIds)

\* [...new Set(list)]
RECURSIVE Dedup(_)
Dedup(list) ==
    IF list = <<>> THEN <<>>
    ELSE LET rest == Dedup(SubSeq(list, 1, Len(list) - 1))
             x == list[Len(list)]
         IN  IF x \in SeqToSet(rest) THEN rest ELSE Append(rest, x)

\* reactions.find(r => r.emojiId === emojiId): its index, 0 when none
FindReaction(reactions, emojiId) ==
    IF \E i \in 1..Len(reactions) : reactions[i].emojiId = emojiId
    THEN CHOOSE i \in 1..Len(reactions) :
            /\ reactions[i].emojiId = emojiId
            /\ \A j \in 1..(i - 1) : reactions[j].emojiId # emojiId
    ELSE 0

RECURSIVE DropEmoji(_, _)
DropEmoji(reactions, emojiId) ==
    IF reactions = <<>> THEN <<>>
    ELSE (IF Head(reactions).emojiId # emojiId THEN <<Head(reactions)>> ELSE <<>>)
         \o DropEmoji(Tail(reactions), emojiId)

RECURSIVE Without(_, _)
Without(list, S) ==
    IF list = <<>> THEN <<>>
    ELSE (IF Head(list) \notin S THEN <<Head(list)>> ELSE <<>>) \o Without(Tail(list), S)

\* applyReactionAddition that appends the member ids to the reaction without
\* merging them as a set
applyReactionAdditionNoMerge(store, delta, addition) ==
    LET found == getMessage(store, delta.spaceId, delta.channelId, addition.messageId)
    IN  IF found = None THEN store
        ELSE LET message == found[1]
                 reactions == message.reactions
                 i == FindReaction(reactions, addition.emojiId)
                 merged == IF i # 0
                           THEN reactions[i].memberIds \o addition.memberIds
                           ELSE <<>>
                 reactions1 ==
                    IF i # 0
                    THEN [reactions EXCEPT ![i].memberIds = merged,
                                           ![i].count = Len(merged)]
                    ELSE Append(reactions,
                                [emojiId |-> addition.emojiId,
                                 emojiName |-> addition.emojiId,
                                 spaceId |-> delta.spaceId,
                                 count |-> Len(addition.memberIds),
                                 memberIds |-> addition.memberIds])
             IN  saveMessage(store, [message EXCEPT !.reactions = reactions1])

\* One entry of delta.added (lines 781-811)
applyReactionAddition(store, delta, addition) ==
    LET found == getMessage(store, delta.spaceId, delta.channelId, addition.messageId)
    IN  IF found = None THEN store
        ELSE LET message == found[1]
                 reactions == message.reactions
                 i == FindReaction(reactions, addition.emojiId)
                 merged == IF i # 0
                           THEN Dedup(reactions[i].memberIds \o addition.memberIds)
                           ELSE <<>>
                 reactions1 ==
                    IF i # 0
                    THEN [reactions EXCEPT ![i].memberIds = merged,
                                           ![i].count = Len(merged)]
                    ELSE Append(reactions,
                                [emojiId |-> addition.emojiId,
                                 emojiName |-> addition.emojiId,
                                 spaceId |-> delta.spaceId,
                                 count |-> Len(addition.memberIds),
                                 memberIds |-> addition.memberIds])
             IN  saveMessage(store, [message EXCEPT !.reactions = reactions1])

\* One entry of delta.removed (lines 813-839)
applyReactionRemoval(store, delta, removal) ==
    LET found == getMessage(store, delta.spaceId, delta.channelId, removal.messageId)
    IN  IF found = None THEN store
        ELSE LET message == found[1]
                 reactions == message.reactions
                 i == FindReaction(reactions, removal.emojiId)
                 left == IF i # 0
                         THEN Without(reactions[i].memberIds, SeqToSet(removal.memberIds))
                         ELSE <<>>
                 reactions1 ==
                    IF i = 0 THEN reactions
                    ELSE IF Len(left) = 0 THEN DropEmoji(reactions, removal.emojiId)
                    ELSE [reactions EXCEPT ![i].memberIds = left, ![i].count = Len(left)]
             IN  saveMessage(store, [message EXCEPT !.reactions = reactions1])

RECURSIVE ApplyAdditions(_, _, _)
ApplyAdditions(store, delta, added) ==
    IF added = <<>> THEN store
    ELSE ApplyAdditions(applyReactionAddition(store, delta, Head(added)), delta, Tail(added))

RECURSIVE ApplyRemovals(_, _, _)
ApplyRemovals(store, delta, removed) ==
    IF removed = <<>> THEN store
    ELSE ApplyRemovals(applyReactionRemoval(store, delta, Head(removed)), delta, Tail(removed))

applyReactionDelta(store, delta) ==
    ApplyRemovals(ApplyAdditions(store, delta, delta.added), delta, delta.removed)

RECURSIVE SaveMembers(_, _)
SaveMembers(members, list) ==
    IF list = <<>> THEN members
    ELSE SaveMembers(MapSet(members, Head(list).address, Head(list)), Tail(list))

applyMemberDelta(members, delta) == SaveMembers(members, delta.members)

\* The message storage after applySyncDelta(delta)
applySyncDeltaMessages(store, delta) ==
    LET s1 == IF delta.messageDelta # None
              THEN applyMessageDelta(store, delta.messageDelta[1]) ELSE store
    IN  IF delta.reactionDelta # None
        THEN applyReactionDelta(s1, delta.reactionDelta[1]) ELSE s1

\* The member storage after applySyncDelta(delta)
applySyncDeltaMembers(members, delta) ==
    IF delta.memberDelta # None THEN applyMemberDelta(members, delta.memberDelta[1])
    ELSE members

\* The session map after applySyncDelta(delta) (lines 871-877)
applySyncDeltaSessions(sess, delta) ==
    IF ~delta.isFinal THEN sess
    ELSE IF delta.messageDelta # None THEN MapDelete(sess, delta.messageDelta[1].spaceId)
    ELSE IF delta.memberDelta # None THEN MapDelete(sess, delta.memberDelta[1].spaceId)
    ELSE sess

----------------------------------------------------------------------------
(* Values of the variables a specification does not use *)

NoDiff == [missingIds |-> <<>>, outdatedIds |-> <<>>, extraIds |-> <<>>]

NoRet == [op |-> "none", val |-> <<>>]

IdleCache ==
    /\ storage = EmptyMap
    /\ storageMembers = EmptyMap
    /\ payloadCache = EmptyMap

IdleDelta ==
    /\ tombstones = <<>>
    /\ rcptManifest = <<>>
    /\ rcptPeerIds = <<>>
    /\ peerEntries = EmptyMap
    /\ rcptStorage = EmptyMap
    /\ rcptMembers = EmptyMap
    /\ diff = NoDiff
    /\ payloads = <<>>
    /\ applied = 0

IdleSess ==
    /\ sessions = EmptyMap
    /\ timers = EmptyMap
    /\ nextTimer = 1
    /\ now = 0
    /\ initiated = <<>>

----------------------------------------------------------------------------
(* SpecCache: one payload cache entry of a service, from its storage *)

\* What storage may hold when the service starts: messages of the channel
\* and one message of another channel of the space.
SeedStore ==
    [id \in MessageIds |->
        CASE id = "m1" -> Msg("m1", ChannelId, 1, "a")
          [] id = "m2" -> Msg("m2", ChannelId, 2, "b")
          [] OTHER -> Msg("m3", OtherChannelId, 2, "a")]

StoreChoices ==
    {[id \in S |-> SeedStore[id]] : S \in {{}, {"m1"}, MessageIds}}

MemberChoices == {EmptyMap, [a \in Addresses |-> Member(a, "x")]}

InitCache ==
    /\ storage \in StoreChoices
    /\ storageMembers \in MemberChoices
    /\ payloadCache = EmptyMap
    /\ lastOp = "init"
    /\ ret = NoRet
    /\ IdleDelta
    /\ IdleSess

Cached == Key \in DOMAIN payloadCache

\* Any build* call: the first access loads the entry from storage
CacheLoad ==
    /\ payloadCache' = getPayloadCache(payloadCache, storage, storageMembers,
                                       SpaceId, ChannelId)
    /\ UNCHANGED <<storage, storageMembers, deltaVars, sessVars, lastOp, ret>>

\* The host reports a new or edited message of the channel. A message keeps
\* the createdDate it was created with.
UpsertMessage ==
    \E id \in MessageIds, d \in 1..MaxDate, v \in {"a", "b"} :
        /\ (Cached /\ id \in DOMAIN payloadCache[Key].messageMap)
              => payloadCache[Key].messageMap[id].createdDate = d
        /\ payloadCache' = updateCacheWithMessage(payloadCache, SpaceId, ChannelId,
                                                  Msg(id, ChannelId, d, v))
            /\ UNCHANGED <<storage, storageMembers, deltaVars, sessVars, lastOp, ret>>

RemoveMessage ==
    \E id \in MessageIds :
        /\ payloadCache' = removeCacheMessage(payloadCache, SpaceId, ChannelId, id)
            /\ UNCHANGED <<storage, storageMembers, deltaVars, sessVars, lastOp, ret>>

UpsertMember ==
    \E a \in Addresses, name \in {"x", "y"} :
        /\ payloadCache' = updateCacheWithMember(payloadCache, SpaceId, ChannelId,
                                                 Member(a, name))
            /\ UNCHANGED <<storage, storageMembers, deltaVars, sessVars, lastOp, ret>>

InvalidateCache ==
    /\ payloadCache' = invalidateCache(payloadCache, SpaceId, ChannelId)
    /\ UNCHANGED <<storage, storageMembers, deltaVars, sessVars, lastOp, ret>>

NextCache ==
    \/ CacheLoad
    \/ UpsertMessage
    \/ RemoveMessage
    \/ UpsertMember
    \/ InvalidateCache

SpecCache == InitCache /\ [][NextCache]_vars

----------------------------------------------------------------------------
(* Claims about the payload cache *)

RECURSIVE XorOfIds(_)
XorOfIds(ids) ==
    IF ids = {} THEN [i \in 1..HASH_LEN |-> 0]
    ELSE LET id == CHOOSE x \in ids : TRUE
             h == hashMessageId(id)
             rest == XorOfIds(ids \ {id})
         IN  [i \in 1..HASH_LEN |-> BitXor(h[i], rest[i])]

\* C1: in every state of a cache entry, manifestHashBytes is the XOR of
\* SHA-256(messageId) over exactly the ids in messageMap, so the reported
\* manifestHash is a function of the id set alone, whatever the order of the
\* operations that produced it.
C1_ManifestHashIsXorOfIds ==
    Cached =>
        LET c == payloadCache[Key]
        IN  /\ c.manifestHashBytes = XorOfIds(DOMAIN c.messageMap)
            /\ getSummary(c).manifestHash = bytesToHex(XorOfIds(DOMAIN c.messageMap))

\* The entry was loaded with m1, m3 and m2 were upserted and m1 removed.
C1_Witness ==
    /\ Cached
    /\ "m1" \in DOMAIN storage
    /\ DOMAIN payloadCache[Key].messageMap = {"m2", "m3"}
    /\ payloadCache[Key].manifestHashBytes # ZeroHash

SetMin(S) == CHOOSE x \in S : \A y \in S : x <= y

SetMax(S) == CHOOSE x \in S : \A y \in S : x >= y

\* C6: in every state of a cache entry, oldestTimestamp and newestTimestamp
\* are the minimum and maximum createdDate over messageMap, or both 0 when
\* messageMap is empty.
C6_TimestampsAreMinMax ==
    Cached =>
        LET c == payloadCache[Key]
            dates == {c.messageMap[id].createdDate : id \in DOMAIN c.messageMap}
        IN  IF dates = {}
            THEN c.oldestTimestamp = 0 /\ c.newestTimestamp = 0
            ELSE c.oldestTimestamp = SetMin(dates) /\ c.newestTimestamp = SetMax(dates)

----------------------------------------------------------------------------
(* SpecDelta: a sender answers the recipient's manifest with the payloads  *)
(* of buildSyncDelta; the recipient, whose session for the space is in     *)
(* progress, applies them in order.                                        *)

\* In this specification a message id has one createdDate
CreatedOf(id) == CASE id = "m1" -> 1 [] id = "m2" -> 2 [] OTHER -> 3

\* What the sender and the recipient may hold of a message ("none": nothing)
SenderVersions(id) ==
    IF id = "m3" THEN {"none", "a", "big"} ELSE {"none", "a", "b", "big"}

RcptVersions(id) ==
    IF id = "m3" THEN {"none", "a", "b"} ELSE {"none", "a", "b", "b0"}

SenderChoices ==
    {f \in [MessageIds -> {"none", "a", "b", "big"}] :
        \A id \in MessageIds : f[id] \in SenderVersions(id)}

RcptChoices ==
    {f \in [MessageIds -> {"none", "a", "b", "b0"}] :
        \A id \in MessageIds : f[id] \in RcptVersions(id)}

StoreOf(versions) ==
    [id \in {x \in MessageIds : versions[x] # "none"} |->
        Msg(id, ChannelId, CreatedOf(id), versions[id])]

Tombstone(id, ch) ==
    [messageId |-> id, spaceId |-> SpaceId, channelId |-> ch, deletedAt |-> 1]

TombstoneChoices ==
    {<<>>, <<Tombstone("m2", OtherChannelId), Tombstone("m1", ChannelId)>>}

PeerEntry(id) == [peerId |-> id, publicKey |-> <<"pk", id>>]

Candidate(inbox, messageCount, memberCount) ==
    [inboxAddress |-> inbox,
     summary |-> [memberCount |-> memberCount, messageCount |-> messageCount,
                  newestMessageTimestamp |-> 0, oldestMessageTimestamp |-> 0,
                  manifestHash |-> <<>>]]

\* The recipient's session once buildSyncInitiate chose the sender
SyncingSession ==
    [spaceId |-> SpaceId, channelId |-> ChannelId, expiry |-> 30,
     candidates |-> <<Candidate("peer", 3, 1)>>, timeout |-> 0,
     inProgress |-> TRUE, syncTarget |-> Some("peer")]

InitDelta ==
    /\ \E sv \in SenderChoices :
          /\ storage = StoreOf(sv)
          /\ storageMembers = [a \in Addresses |-> Member(a, "x")]
          /\ payloadCache = getPayloadCache(EmptyMap, storage, storageMembers,
                                            SpaceId, ChannelId)
    /\ \E rv \in RcptChoices : rcptStorage = StoreOf(rv)
    /\ rcptMembers \in MemberChoices
    /\ tombstones \in TombstoneChoices
    /\ peerEntries = [id \in {1, 2} |-> PeerEntry(id)]
    /\ rcptPeerIds \in {<<1>>, <<3>>}
    /\ rcptManifest = None
    /\ diff = NoDiff
    /\ payloads = <<>>
    /\ applied = 0
    /\ sessions = [sp \in {SpaceId} |-> SyncingSession]
    /\ timers = EmptyMap
    /\ nextTimer = 1
    /\ now = 0
    /\ initiated = <<>>
    /\ lastOp = "init"
    /\ ret = NoRet

\* The cache entry the recipient builds its manifest and member digests from
RcptCache ==
    buildPayloadCache(SpaceId, ChannelId,
                      getChannelMessages(rcptStorage, SpaceId, ChannelId),
                      MapValues(rcptMembers))

\* The sender runs buildSyncDelta on what the recipient sent
BuildSyncDelta ==
    /\ payloads = <<>>
    /\ LET cache == payloadCache[Key]
           theirs == getManifest(RcptCache)
       IN  /\ rcptManifest' = Some(theirs)
           /\ diff' = computeMessageDiff(getManifest(cache), theirs)
           /\ payloads' = buildSyncDelta(cache, tombstones, SpaceId, ChannelId, theirs,
                                         getMemberDigests(RcptCache), rcptPeerIds,
                                         peerEntries)
    /\ lastOp' = "buildSyncDelta"
    /\ UNCHANGED <<cacheVars, tombstones, rcptPeerIds, peerEntries, rcptStorage,
                   rcptMembers, applied, sessVars, ret>>

\* The recipient runs applySyncDelta on the next payload
ApplySyncDelta ==
    /\ applied < Len(payloads)
    /\ LET delta == payloads[applied + 1]
       IN  /\ rcptStorage' = applySyncDeltaMessages(rcptStorage, delta)
           /\ rcptMembers' = applySyncDeltaMembers(rcptMembers, delta)
           /\ sessions' = applySyncDeltaSessions(sessions, delta)
    /\ applied' = applied + 1
    /\ lastOp' = "applySyncDelta"
    /\ UNCHANGED <<cacheVars, tombstones, rcptManifest, rcptPeerIds, peerEntries,
                   diff, payloads, timers, nextTimer, now, initiated, ret>>

NextDelta ==
    \/ BuildSyncDelta
    \/ ApplySyncDelta

SpecDelta == InitDelta /\ [][NextDelta]_vars

----------------------------------------------------------------------------
(* Claims about buildSyncDelta and its application *)

Built == payloads # <<>>

RECURSIVE Collect(_, _)
\* The messages of field f ("newMessages" or "updatedMessages") over all
\* payloads, in order
Collect(ps, f) ==
    IF ps = <<>> THEN <<>>
    ELSE (IF Head(ps).messageDelta # None THEN Head(ps).messageDelta[1][f] ELSE <<>>)
         \o Collect(Tail(ps), f)

\* The payloads that carry message id, as new or as updated
Carriers(id) ==
    {i \in 1..Len(payloads) :
        /\ payloads[i].messageDelta # None
        /\ \E m \in SeqToSet(payloads[i].messageDelta[1].newMessages)
                    \cup SeqToSet(payloads[i].messageDelta[1].updatedMessages) :
              m.messageId = id}

\* C2: in every sequence of payloads buildSyncDelta returns, exactly one
\* payload has isFinal = TRUE and it is the last one.
C2_ExactlyOneFinalAndLast ==
    /\ lastOp # "init" => Len(payloads) >= 1
    /\ Built =>
          /\ payloads[Len(payloads)].isFinal
          /\ \A i \in 1..(Len(payloads) - 1) : ~payloads[i].isFinal

\* Three message chunks, the last of them marked final
C2_Witness ==
    /\ Len(payloads) = 3
    /\ payloads[3].messageDelta # None
    /\ payloads[3].isFinal

\* C3: over all payloads of a buildSyncDelta result, newMessages are exactly
\* the cached messages whose id we hold and the recipient's manifest lacks
\* (extraIds), updatedMessages are exactly the cached messages whose id is
\* in outdatedIds, and each such message is in exactly one payload.
C3_UnionOfChunksIsTheDiff ==
    Built =>
        LET messageMap == payloadCache[Key].messageMap
            theirIds == {rcptManifest[1].digests[i].messageId :
                            i \in 1..Len(rcptManifest[1].digests)}
            extra == (DOMAIN messageMap) \ theirIds
            outdated == SeqToSet(diff.outdatedIds)
            allNew == Collect(payloads, "newMessages")
            allUpdated == Collect(payloads, "updatedMessages")
        IN  /\ SeqToSet(diff.extraIds) = extra
            /\ SeqToSet(allNew) = {messageMap[id] : id \in extra}
            /\ SeqToSet(allUpdated) = {messageMap[id] : id \in outdated}
            /\ Len(allNew) = Cardinality(extra)
            /\ Len(allUpdated) = Cardinality(outdated)
            /\ \A id \in extra \cup outdated : Cardinality(Carriers(id)) = 1

\* New and updated messages spread over more than one chunk
C3_Witness ==
    /\ Built
    /\ Len(diff.extraIds) >= 1
    /\ Len(diff.outdatedIds) >= 1
    /\ Cardinality({i \in 1..Len(payloads) : payloads[i].messageDelta # None}) >= 2

\* C4: every message buildSyncDelta places in updatedMessages has a local
\* copy strictly newer (modifiedDate, else createdDate) than the digest the
\* recipient sent for the same id.
C4_UpdatesAreNewerThanRecipients ==
    Built =>
        LET theirDigests == MapFromList(rcptManifest[1].digests, "messageId")
            allUpdated == Collect(payloads, "updatedMessages")
        IN  \A k \in 1..Len(allUpdated) :
                /\ allUpdated[k].messageId \in DOMAIN theirDigests
                /\ ModifiedOf(createMessageDigest(allUpdated[k]))
                      > ModifiedOf(theirDigests[allUpdated[k].messageId])

AllApplied == Built /\ applied = Len(payloads)

\* computeMessageDiff(the sender's manifest, the recipient's manifest rebuilt
\* from its storage as it is now)
DiffNow == computeMessageDiff(getManifest(payloadCache[Key]), getManifest(RcptCache))

\* C5 as stated: once the recipient has applied every payload, the diff of
\* the sender's manifest against the recipient's rebuilt manifest is empty
\* in missingIds, outdatedIds and extraIds.
C5_ApplyThenDiffIsEmpty ==
    AllApplied =>
        /\ DiffNow.missingIds = <<>>
        /\ DiffNow.outdatedIds = <<>>
        /\ DiffNow.extraIds = <<>>

\* C5 amended: once the recipient has applied every payload, the diff of the
\* sender's manifest against the recipient's rebuilt manifest has empty
\* outdatedIds, its extraIds are ids the delta told the recipient to delete
\* (tombstones of the channel), and its missingIds are ids the recipient
\* held before and the sender lacks (a one-way delta leaves them missing).
C5_ApplyThenDiffAmended ==
    AllApplied =>
        /\ DiffNow.outdatedIds = <<>>
        /\ SeqToSet(DiffNow.extraIds)
              \subseteq SeqToSet(TombstoneIds(tombstones, SpaceId, ChannelId))
        /\ SeqToSet(DiffNow.missingIds) \subseteq SeqToSet(diff.missingIds)

\* A delta with new and updated messages was applied in full, and the
\* recipient still holds a message the sender lacks
C5_Witness ==
    /\ AllApplied
    /\ Len(payloads) >= 2
    /\ diff.extraIds # <<>>
    /\ diff.outdatedIds # <<>>
    /\ DiffNow.missingIds # <<>>

\* C7: after applySyncDelta of a payload with isFinal = TRUE, the session in
\* progress for the space has been deleted, whatever the shape of the final
\* payload.
C7_FinalDeltaDeletesSession ==
    (applied >= 1 /\ payloads[applied].isFinal) => SpaceId \notin DOMAIN sessions

----------------------------------------------------------------------------
(* Session manager. Time is counted in seconds.                             *)

\* Latest value of Date.now()
MaxTime == 3

\* setTimeout calls in one behaviour
MaxTimers == 2

\* Candidates one session collects
MaxCandidates == 2

\* config.requestExpiry, in seconds
requestExpiry == 1

\* AGGRESSIVE_SYNC_TIMEOUT_MS, in seconds
AGGRESSIVE_SYNC_TIMEOUT_MS == 1

\* config.onInitiateSync is set
onInitiateSync == TRUE

\* session.timeout of a session that owns no timer
NoTimeout == 0

NewSession(spaceId, channelId, expiry) ==
    [spaceId |-> spaceId, channelId |-> channelId, expiry |-> expiry,
     candidates |-> <<>>, timeout |-> NoTimeout, inProgress |-> FALSE,
     syncTarget |-> None]

\* host setTimeout / clearTimeout over the timer queue
setTimeout(tm, id, spaceId, callback, due) ==
    MapSet(tm, id, [spaceId |-> spaceId, callback |-> callback, due |-> due])

clearTimeout(tm, id) == MapDelete(tm, id)

\* A comparator that also puts b first when it ties with a
SortsBeforeOrTies(b, a) ==
    LET msgDiff == b.summary.messageCount - a.summary.messageCount
    IN  IF msgDiff # 0 THEN msgDiff > 0
        ELSE b.summary.memberCount - a.summary.memberCount >= 0

\* The comparator of selectBestCandidate's sort: TRUE when b sorts before a
SortsBefore(b, a) ==
    LET msgDiff == b.summary.messageCount - a.summary.messageCount
    IN  IF msgDiff # 0 THEN msgDiff > 0
        ELSE b.summary.memberCount - a.summary.memberCount > 0

\* Array.prototype.sort is stable: c goes after every element it does not
\* sort before
RECURSIVE InsertCandidate(_, _)
InsertCandidate(sorted, c) ==
    IF sorted = <<>> THEN <<c>>
    ELSE IF SortsBefore(c, Head(sorted)) THEN <<c>> \o sorted
    ELSE <<Head(sorted)>> \o InsertCandidate(Tail(sorted), c)

RECURSIVE SortCandidates(_)
SortCandidates(list) ==
    IF list = <<>> THEN <<>>
    ELSE InsertCandidate(SortCandidates(SubSeq(list, 1, Len(list) - 1)),
                         list[Len(list)])

\* selectBestCandidate(spaceId): None for null
selectBestCandidate(sess, spaceId) ==
    IF spaceId \notin DOMAIN sess \/ sess[spaceId].candidates = <<>> THEN None
    ELSE Some(SortCandidates(sess[spaceId].candidates)[1])

\* hasActiveSession(spaceId): the session map it leaves and what it returns
\* hasActiveSession that takes a session for expired at its expiry time
hasActiveSessionUpToExpiry(sess, t, spaceId) ==
    IF spaceId \notin DOMAIN sess THEN [sessions |-> sess, val |-> FALSE]
    ELSE IF t >= sess[spaceId].expiry
         THEN [sessions |-> MapDelete(sess, spaceId), val |-> FALSE]
    ELSE [sessions |-> sess, val |-> TRUE]

hasActiveSession(sess, t, spaceId) ==
    IF spaceId \notin DOMAIN sess THEN [sessions |-> sess, val |-> FALSE]
    ELSE IF t > sess[spaceId].expiry
         THEN [sessions |-> MapDelete(sess, spaceId), val |-> FALSE]
    ELSE [sessions |-> sess, val |-> TRUE]

isSyncInProgress(sess, spaceId) ==
    IF spaceId \in DOMAIN sess THEN sess[spaceId].inProgress ELSE FALSE

setSyncInProgress(sess, spaceId, inProgress) ==
    IF spaceId \in DOMAIN sess
    THEN [sess EXCEPT ![spaceId].inProgress = inProgress] ELSE sess

setSyncTarget(sess, spaceId, targetInbox) ==
    IF spaceId \in DOMAIN sess
    THEN [sess EXCEPT ![spaceId].syncTarget = Some(targetInbox)] ELSE sess

\* scheduleSyncInitiation(spaceId, callback, timeoutMs): the session map,
\* timer queue and next timer id it leaves
scheduleSyncInitiation(sess, tm, id, t, spaceId, callback, timeoutMs) ==
    IF spaceId \notin DOMAIN sess
    THEN [sessions |-> sess, timers |-> tm, nextTimer |-> id]
    ELSE LET cleared == IF sess[spaceId].timeout # NoTimeout
                        THEN clearTimeout(tm, sess[spaceId].timeout) ELSE tm
         IN  [sessions |-> [sess EXCEPT ![spaceId].timeout = id],
              timers |-> setTimeout(cleared, id, spaceId, callback, t + timeoutMs),
              nextTimer |-> id + 1]

\* addCandidate that records the candidate and schedules no timer
addCandidateNoSchedule(sess, tm, id, t, spaceId, candidate) ==
    IF spaceId \notin DOMAIN sess \/ t > sess[spaceId].expiry
    THEN [sessions |-> sess, timers |-> tm, nextTimer |-> id]
    ELSE [sessions |-> [sess EXCEPT ![spaceId].candidates = Append(@, candidate)],
          timers |-> tm, nextTimer |-> id]

\* addCandidate that accepts a candidate whatever the session's expiry
addCandidateIgnoreExpiry(sess, tm, id, t, spaceId, candidate) ==
    IF spaceId \notin DOMAIN sess
    THEN [sessions |-> sess, timers |-> tm, nextTimer |-> id]
    ELSE LET pushed == [sess EXCEPT ![spaceId].candidates = Append(@, candidate)]
         IN  IF Len(pushed[spaceId].candidates) = 1 /\ onInitiateSync
             THEN scheduleSyncInitiation(pushed, tm, id, t, spaceId, "aggressive",
                                         AGGRESSIVE_SYNC_TIMEOUT_MS)
             ELSE [sessions |-> pushed, timers |-> tm, nextTimer |-> id]

\* addCandidate(spaceId, candidate)
addCandidate(sess, tm, id, t, spaceId, candidate) ==
    IF spaceId \notin DOMAIN sess \/ t > sess[spaceId].expiry
    THEN [sessions |-> sess, timers |-> tm, nextTimer |-> id]
    ELSE LET pushed == [sess EXCEPT ![spaceId].candidates = Append(@, candidate)]
         IN  IF Len(pushed[spaceId].candidates) = 1 /\ onInitiateSync
             THEN scheduleSyncInitiation(pushed, tm, id, t, spaceId, "aggressive",
                                         AGGRESSIVE_SYNC_TIMEOUT_MS)
             ELSE [sessions |-> pushed, timers |-> tm, nextTimer |-> id]

\* buildSyncInitiate that leaves the session of a space without candidates
buildSyncInitiateKeepSession(sess, spaceId) ==
    LET candidate == selectBestCandidate(sess, spaceId)
    IN  IF candidate = None
        THEN [sessions |-> sess, val |-> None]
        ELSE [sessions |-> setSyncTarget(setSyncInProgress(sess, spaceId, TRUE),
                                         spaceId, candidate[1].inboxAddress),
              val |-> Some(candidate[1].inboxAddress)]

\* buildSyncInitiate(spaceId, ...): the session map it leaves and the target
\* it returns (None for a null result)
buildSyncInitiate(sess, spaceId) ==
    LET candidate == selectBestCandidate(sess, spaceId)
    IN  IF candidate = None
        THEN [sessions |-> MapDelete(sess, spaceId), val |-> None]
        ELSE [sessions |-> setSyncTarget(setSyncInProgress(sess, spaceId, TRUE),
                                         spaceId, candidate[1].inboxAddress),
              val |-> Some(candidate[1].inboxAddress)]

\* cleanupSessions()
cleanupSessions(sess, tm, t) ==
    LET expired == {sp \in DOMAIN sess : t > sess[sp].expiry}
        owned == {sess[sp].timeout : sp \in expired} \ {NoTimeout}
    IN  [sessions |-> [sp \in DOMAIN sess \ expired |-> sess[sp]],
         timers |-> [id \in DOMAIN tm \ owned |-> tm[id]]]

\* cancelSync that deletes the session and leaves its timer pending
cancelSyncKeepTimer(sess, tm, spaceId) ==
    [sessions |-> MapDelete(sess, spaceId), timers |-> tm]

\* cancelSync(spaceId)
cancelSync(sess, tm, spaceId) ==
    [sessions |-> MapDelete(sess, spaceId),
     timers |-> IF spaceId \in DOMAIN sess /\ sess[spaceId].timeout # NoTimeout
                THEN clearTimeout(tm, sess[spaceId].timeout) ELSE tm]

----------------------------------------------------------------------------
(* SpecSession: one service's session for SpaceId, the timers it owns and  *)
(* the clock, with each call running to completion before the next starts. *)

CandidateChoices == {Candidate("p1", 1, 1), Candidate("p2", 2, 1)}

\* The sync-delta payloads peers answer a sync-initiate of this service with:
\* what buildSyncDelta returns at a peer that holds the same channel or one
\* more message.
PeerReplies ==
    LET ours == buildPayloadCache(SpaceId, ChannelId, <<SeedStore["m1"]>>, <<>>)
        peerMessages == {<<SeedStore["m1"]>>, <<SeedStore["m1"], SeedStore["m2"]>>}
    IN  UNION {SeqToSet(buildSyncDelta(
                   buildPayloadCache(SpaceId, ChannelId, msgs, MapValues(mem)),
                   <<>>, SpaceId, ChannelId, getManifest(ours),
                   getMemberDigests(ours), <<>>, EmptyMap)) :
               msgs \in peerMessages, mem \in {EmptyMap}}

InitSession ==
    /\ storage = [id \in {"m1"} |-> SeedStore[id]]
    /\ storageMembers = EmptyMap
    /\ payloadCache = getPayloadCache(EmptyMap, storage, storageMembers,
                                      SpaceId, ChannelId)
    /\ sessions = EmptyMap
    /\ timers = EmptyMap
    /\ nextTimer = 1
    /\ now = 0
    /\ initiated = <<>>
    /\ lastOp = "init"
    /\ ret = NoRet
    /\ IdleDelta

Returned(op, val) == ret' = [op |-> op, val |-> val]

\* Date.now() advances
Tick ==
    /\ now < MaxTime
    /\ now' = now + 1
    /\ Returned("tick", None)
    /\ UNCHANGED <<cacheVars, deltaVars, sessions, timers, nextTimer, initiated, lastOp>>

BuildSyncRequest ==
    /\ payloadCache' = getPayloadCache(payloadCache, storage, storageMembers,
                                       SpaceId, ChannelId)
    /\ sessions' = MapSet(sessions, SpaceId,
                          NewSession(SpaceId, ChannelId, now + requestExpiry))
    /\ Returned("buildSyncRequest",
                [type |-> "sync-request", inboxAddress |-> "me",
                 expiry |-> now + requestExpiry,
                 summary |-> getSummary(payloadCache'[Key])])
    /\ UNCHANGED <<storage, storageMembers, deltaVars, timers, nextTimer, now,
                   initiated, lastOp>>

\* The host schedules its own callback with the default timeout
ScheduleSyncInitiation ==
    /\ nextTimer <= MaxTimers
    /\ LET r == scheduleSyncInitiation(sessions, timers, nextTimer, now, SpaceId,
                                       "host", requestExpiry)
       IN  /\ sessions' = r.sessions
           /\ timers' = r.timers
           /\ nextTimer' = r.nextTimer
    /\ Returned("scheduleSyncInitiation", None)
    /\ UNCHANGED <<cacheVars, deltaVars, now, initiated, lastOp>>

AddCandidate ==
    \E c \in CandidateChoices :
        /\ nextTimer <= MaxTimers
        /\ SpaceId \in DOMAIN sessions
              => Len(sessions[SpaceId].candidates) < MaxCandidates
        /\ LET r == addCandidate(sessions, timers, nextTimer, now, SpaceId, c)
           IN  /\ sessions' = r.sessions
               /\ timers' = r.timers
               /\ nextTimer' = r.nextTimer
        /\ Returned("addCandidate", None)
        /\ UNCHANGED <<cacheVars, deltaVars, now, initiated, lastOp>>

\* A pending timer whose delay has passed runs its callback
TimerFires ==
    \E id \in DOMAIN timers :
        /\ now >= timers[id].due
        /\ timers' = clearTimeout(timers, id)
        /\ IF timers[id].callback = "aggressive"
           THEN LET best == selectBestCandidate(sessions, timers[id].spaceId)
                IN  IF best # None /\ best[1].inboxAddress # ""
                    THEN /\ initiated' = Append(initiated,
                                [spaceId |-> timers[id].spaceId,
                                 target |-> best[1].inboxAddress])
                         /\ Returned("timer", Some(best[1].inboxAddress))
                    ELSE /\ initiated' = initiated
                         /\ Returned("timer", None)
           ELSE /\ initiated' = initiated
                /\ Returned("timer", None)
        /\ UNCHANGED <<cacheVars, deltaVars, sessions, nextTimer, now, lastOp>>

SelectBestCandidate ==
    /\ Returned("selectBestCandidate", selectBestCandidate(sessions, SpaceId))
    /\ UNCHANGED <<cacheVars, deltaVars, sessVars, lastOp>>

BuildSyncInitiate ==
    /\ LET r == buildSyncInitiate(sessions, SpaceId)
       IN  /\ sessions' = r.sessions
           /\ payloadCache' = IF r.val = None THEN payloadCache
                              ELSE getPayloadCache(payloadCache, storage, storageMembers,
                                                   SpaceId, ChannelId)
           /\ Returned("buildSyncInitiate", r.val)
    /\ UNCHANGED <<storage, storageMembers, deltaVars, timers, nextTimer, now,
                   initiated, lastOp>>

HasActiveSession ==
    /\ LET r == hasActiveSession(sessions, now, SpaceId)
       IN  /\ sessions' = r.sessions
           /\ Returned("hasActiveSession", r.val)
    /\ UNCHANGED <<cacheVars, deltaVars, timers, nextTimer, now, initiated, lastOp>>

IsSyncInProgress ==
    /\ Returned("isSyncInProgress", isSyncInProgress(sessions, SpaceId))
    /\ UNCHANGED <<cacheVars, deltaVars, sessVars, lastOp>>

CleanupSessions ==
    /\ LET r == cleanupSessions(sessions, timers, now)
       IN  /\ sessions' = r.sessions
           /\ timers' = r.timers
    /\ Returned("cleanupSessions", None)
    /\ UNCHANGED <<cacheVars, deltaVars, nextTimer, now, initiated, lastOp>>

CancelSync ==
    /\ LET r == cancelSync(sessions, timers, SpaceId)
       IN  /\ sessions' = r.sessions
           /\ timers' = r.timers
    /\ Returned("cancelSync", None)
    /\ UNCHANGED <<cacheVars, deltaVars, nextTimer, now, initiated, lastOp>>

\* A sync-delta payload of the chosen peer arrives and is applied
ReceiveSyncDelta ==
    \E delta \in PeerReplies :
        /\ storage' = applySyncDeltaMessages(storage, delta)
        /\ storageMembers' = applySyncDeltaMembers(storageMembers, delta)
        /\ sessions' = applySyncDeltaSessions(sessions, delta)
        /\ Returned("applySyncDelta", delta.isFinal)
        /\ UNCHANGED <<payloadCache, deltaVars, timers, nextTimer, now, initiated,
                       lastOp>>

NextSession ==
    \/ Tick
    \/ BuildSyncRequest
    \/ ScheduleSyncInitiation
    \/ AddCandidate
    \/ TimerFires
    \/ SelectBestCandidate
    \/ BuildSyncInitiate
    \/ HasActiveSession
    \/ IsSyncInProgress
    \/ CleanupSessions
    \/ CancelSync
    \/ ReceiveSyncDelta

SpecSession == InitSession /\ [][NextSession]_vars

----------------------------------------------------------------------------
(* Claims about sessions and their timers *)

\* C8: whenever a step removes the session of a space, the timer that
\* session owned is no longer pending afterwards, so its callback cannot run
\* for the removed session.
C8_RemovedSessionTimerCleared ==
    [][(SpaceId \in DOMAIN sessions /\ SpaceId \notin DOMAIN sessions')
          => sessions[SpaceId].timeout \notin DOMAIN timers']_vars

\* C9: a buildSyncInitiate call on a space without a session or without
\* candidates leaves no session and returns null; any other call returns the
\* inbox address of selectBestCandidate as target and leaves the session in
\* progress, with that target as syncTarget and its candidates unchanged.
C9_BuildSyncInitiateContract ==
    [][ret'.op = "buildSyncInitiate" =>
          IF SpaceId \notin DOMAIN sessions \/ sessions[SpaceId].candidates = <<>>
          THEN /\ SpaceId \notin DOMAIN sessions'
               /\ ret'.val = None
          ELSE /\ ret'.val = Some(selectBestCandidate(sessions, SpaceId)[1].inboxAddress)
               /\ SpaceId \in DOMAIN sessions'
               /\ sessions'[SpaceId].inProgress = TRUE
               /\ sessions'[SpaceId].syncTarget = ret'.val
               /\ sessions'[SpaceId].candidates = sessions[SpaceId].candidates]_vars

\* buildSyncInitiate has just picked the second of two candidates
C9_Witness ==
    /\ ret.op = "buildSyncInitiate"
    /\ ret.val = Some("p2")
    /\ SpaceId \in DOMAIN sessions
    /\ Len(sessions[SpaceId].candidates) = 2
    /\ sessions[SpaceId].candidates[1].inboxAddress = "p1"
    /\ sessions[SpaceId].inProgress

\* C10: on a session whose expiry has passed, selectBestCandidate and
\* buildSyncInitiate return null and do not mark the session in progress,
\* isSyncInProgress returns false, and a timer callback does not call
\* onInitiateSync.
C10_ExpiredSessionBehavesAsAbsent ==
    [][(SpaceId \in DOMAIN sessions /\ now > sessions[SpaceId].expiry) =>
          /\ ret'.op = "selectBestCandidate" => ret'.val = None
          /\ ret'.op = "buildSyncInitiate" =>
                /\ ret'.val = None
                /\ SpaceId \in DOMAIN sessions' =>
                      sessions'[SpaceId].inProgress = sessions[SpaceId].inProgress
          /\ ret'.op = "isSyncInProgress" => ret'.val = FALSE
          /\ ret'.op = "timer" => initiated' = initiated]_vars

----------------------------------------------------------------------------
(* SpecInfo: a service answers sync-requests, each carrying the requester's *)
(* summary, with buildSyncInfo.                                            *)

\* buildSyncInfo without the comparison of the oldest timestamps
buildSyncInfoNoOlder(cache, inboxAddress, theirSummary) ==
    LET ourSummary == getSummary(cache)
        hasMoreMessages == ourSummary.messageCount > theirSummary.messageCount
        hasMoreMembers == ourSummary.memberCount > theirSummary.memberCount
        hasNewerMessages ==
            ourSummary.newestMessageTimestamp > theirSummary.newestMessageTimestamp
        hasDifferentMessages == ourSummary.manifestHash # theirSummary.manifestHash
    IN  IF Cardinality(DOMAIN cache.messageMap) = 0
           /\ Cardinality(DOMAIN cache.memberMap) = 0
        THEN None
        ELSE IF /\ ourSummary.manifestHash = theirSummary.manifestHash
                /\ ourSummary.memberCount = theirSummary.memberCount
        THEN None
        ELSE IF /\ ~hasMoreMessages /\ ~hasMoreMembers /\ ~hasNewerMessages
                /\ ~hasDifferentMessages
        THEN None
        ELSE Some([type |-> "sync-info", inboxAddress |-> inboxAddress,
                   summary |-> ourSummary])

\* buildSyncInfo(spaceId, channelId, inboxAddress, theirSummary) on the loaded
\* cache entry: None for null
buildSyncInfo(cache, inboxAddress, theirSummary) ==
    LET ourSummary == getSummary(cache)
        hasMoreMessages == ourSummary.messageCount > theirSummary.messageCount
        hasMoreMembers == ourSummary.memberCount > theirSummary.memberCount
        hasNewerMessages ==
            ourSummary.newestMessageTimestamp > theirSummary.newestMessageTimestamp
        hasOlderMessages ==
            ourSummary.oldestMessageTimestamp < theirSummary.oldestMessageTimestamp
        hasDifferentMessages == ourSummary.manifestHash # theirSummary.manifestHash
    IN  IF Cardinality(DOMAIN cache.messageMap) = 0
           /\ Cardinality(DOMAIN cache.memberMap) = 0
        THEN None
        ELSE IF /\ ourSummary.manifestHash = theirSummary.manifestHash
                /\ ourSummary.memberCount = theirSummary.memberCount
        THEN None
        ELSE IF /\ ~hasMoreMessages /\ ~hasMoreMembers /\ ~hasNewerMessages
                /\ ~hasOlderMessages /\ ~hasDifferentMessages
        THEN None
        ELSE Some([type |-> "sync-info", inboxAddress |-> inboxAddress,
                   summary |-> ourSummary])

\* The summaries requesters send: the summary of a channel some peer holds,
\* with any member count and any timestamps
TheirSummaries ==
    {[getSummary(buildPayloadCache(SpaceId, ChannelId,
                     getChannelMessages(st, SpaceId, ChannelId), <<>>))
        EXCEPT !.memberCount = mc,
               !.newestMessageTimestamp = n,
               !.oldestMessageTimestamp = o] :
     st \in StoreChoices, mc \in 0..2, n \in {0, 1, MaxDate}, o \in {0, 1, MaxDate}}

InitInfo ==
    /\ storage \in StoreChoices
    /\ storageMembers \in MemberChoices
    /\ payloadCache = EmptyMap
    /\ sessions \in {EmptyMap, MapSet(EmptyMap, SpaceId, SyncingSession)}
    /\ timers = EmptyMap
    /\ nextTimer = 1
    /\ now = 0
    /\ initiated = <<>>
    /\ lastOp = "init"
    /\ ret = NoRet
    /\ IdleDelta

BuildSyncInfo ==
    \E theirSummary \in TheirSummaries :
        /\ payloadCache' = getPayloadCache(payloadCache, storage, storageMembers,
                                           SpaceId, ChannelId)
        /\ ret' = [op |-> "buildSyncInfo", arg |-> theirSummary,
                   val |-> buildSyncInfo(payloadCache'[Key], "me", theirSummary)]
        /\ UNCHANGED <<storage, storageMembers, deltaVars, sessVars, lastOp>>

NextInfo == BuildSyncInfo

SpecInfo == InitInfo /\ [][NextInfo]_vars

\* C11: buildSyncInfo returns null exactly when (a) the cache holds neither
\* messages nor members, or (b) our manifestHash and memberCount equal
\* theirs, or (c) we have neither more messages, nor more members, nor a
\* newer newest timestamp, nor an older oldest timestamp, nor a different
\* manifestHash; otherwise it returns a sync-info payload with our summary;
\* and it never creates or changes a session.
C11_BuildSyncInfoDecision ==
    [][ret'.op = "buildSyncInfo" =>
          LET cache == payloadCache'[Key]
              ours == getSummary(cache)
              theirs == ret'.arg
              a == DOMAIN cache.messageMap = {} /\ DOMAIN cache.memberMap = {}
              b == /\ ours.manifestHash = theirs.manifestHash
                   /\ ours.memberCount = theirs.memberCount
              c == ~ \/ ours.messageCount > theirs.messageCount
                     \/ ours.memberCount > theirs.memberCount
                     \/ ours.newestMessageTimestamp > theirs.newestMessageTimestamp
                     \/ ours.oldestMessageTimestamp < theirs.oldestMessageTimestamp
                     \/ ours.manifestHash # theirs.manifestHash
          IN  /\ (ret'.val = None) <=> (a \/ b \/ c)
              /\ ret'.val # None =>
                    ret'.val = Some([type |-> "sync-info", inboxAddress |-> "me",
                                     summary |-> ours])
              /\ sessions' = sessions]_vars

\* buildSyncInfo returned null by rule (c) alone: the requester has the same
\* messages and more members, while a session of ours is open
C11_Witness ==
    /\ ret.op = "buildSyncInfo"
    /\ ret.val = None
    /\ DOMAIN payloadCache[Key].messageMap # {}
    /\ ret.arg.memberCount > getSummary(payloadCache[Key]).memberCount
    /\ SpaceId \in DOMAIN sessions

----------------------------------------------------------------------------
(* SpecEdit: one loaded cache entry under updateCacheWithMessage and        *)
(* removeCacheMessage, with lastOp recording the call and the summary the   *)
(* entry had before it.                                                     *)

InitEdit ==
    /\ storage \in StoreChoices
    /\ storageMembers = EmptyMap
    /\ payloadCache = getPayloadCache(EmptyMap, storage, storageMembers,
                                      SpaceId, ChannelId)
    /\ lastOp = [op |-> "init"]
    /\ ret = NoRet
    /\ IdleDelta
    /\ IdleSess

\* updateCacheWithMessage(space, channel, message); lastOp keeps the message,
\* whether its id was new, and the summary before the call
UpsertTracked ==
    \E id \in MessageIds, v \in {"a", "b"} :
        LET message == Msg(id, ChannelId, CreatedOf(id), v)
        IN  /\ payloadCache' = updateCacheWithMessage(payloadCache, SpaceId, ChannelId,
                                                      message)
            /\ lastOp' = [op |-> "upsertMessage",
                          message |-> message,
                          isNew |-> id \notin DOMAIN payloadCache[Key].messageMap,
                          before |-> getSummary(payloadCache[Key])]
            /\ UNCHANGED <<storage, storageMembers, deltaVars, sessVars, ret>>

\* removeCacheMessage(space, channel, id); when it follows the upsert of the
\* same id, lastOp keeps what that upsert recorded
RemoveTracked ==
    \E id \in MessageIds :
        /\ payloadCache' = removeCacheMessage(payloadCache, SpaceId, ChannelId, id)
        /\ lastOp' = IF lastOp.op = "upsertMessage" /\ lastOp.message.messageId = id
                     THEN [lastOp EXCEPT !.op = "removeAfterUpsert"]
                     ELSE [op |-> "removeMessage"]
        /\ UNCHANGED <<storage, storageMembers, deltaVars, sessVars, ret>>

NextEdit ==
    \/ UpsertTracked
    \/ RemoveTracked

SpecEdit == InitEdit /\ [][NextEdit]_vars

\* C12 as stated: after upsertMessage(m) followed by removeMessage(m.messageId)
\* the manifestHash of the summary is the one the entry had before the
\* upsert, for any message m.
C12_UpsertThenRemoveRestoresHash ==
    lastOp.op = "removeAfterUpsert" =>
        getSummary(payloadCache[Key]).manifestHash = lastOp.before.manifestHash

\* C12 amended: after upsertMessage(m) followed by removeMessage(m.messageId),
\* where m.messageId was not in the cache before the upsert, the manifestHash
\* of the summary is the one the entry had before the upsert.
C12_UpsertNewThenRemoveRestoresHash ==
    (lastOp.op = "removeAfterUpsert" /\ lastOp.isNew) =>
        getSummary(payloadCache[Key]).manifestHash = lastOp.before.manifestHash

\* A new message was upserted into a non-empty entry and removed again
C12_Witness ==
    /\ lastOp.op = "removeAfterUpsert"
    /\ lastOp.isNew
    /\ lastOp.before.messageCount >= 1
    /\ getSummary(payloadCache[Key]).messageCount = lastOp.before.messageCount

\* C13: upsertMessage(m') for an id already cached leaves manifestHash and
\* messageCount as they were and replaces messageMap[id] by m' and
\* digestMap[id] by the digest of m', so that the manifest reports the
\* contentHash and modifiedDate of m'.
C13_UpsertExistingKeepsHash ==
    (lastOp.op = "upsertMessage" /\ ~lastOp.isNew) =>
        LET c == payloadCache[Key]
            m == lastOp.message
            reported == {d \in SeqToSet(getManifest(c).digests) :
                            d.messageId = m.messageId}
        IN  /\ getSummary(c).manifestHash = lastOp.before.manifestHash
            /\ getSummary(c).messageCount = lastOp.before.messageCount
            /\ c.messageMap[m.messageId] = m
            /\ c.digestMap[m.messageId] = createMessageDigest(m)
            /\ Cardinality(reported) = 1
            /\ \A d \in reported :
                  /\ d.contentHash = computeContentHash(m)
                  /\ ModifiedOf(d) = m.modifiedDate

\* The edited copy of m1 replaced the posted one in an entry with two messages
C13_Witness ==
    /\ lastOp.op = "upsertMessage"
    /\ ~lastOp.isNew
    /\ lastOp.message = Msg("m1", ChannelId, CreatedOf("m1"), "b")
    /\ lastOp.before.messageCount = 2
    /\ payloadCache[Key].digestMap["m1"].contentHash
          # computeContentHash(Msg("m1", ChannelId, CreatedOf("m1"), "a"))

----------------------------------------------------------------------------
(* Claims about the layout of the payloads of buildSyncDelta *)

\* The payloads that carry a messageDelta, and those that do not
MessageChunks == {i \in 1..Len(payloads) : payloads[i].messageDelta # None}

TrailingPayloads == {i \in 1..Len(payloads) : payloads[i].messageDelta = None}

\* C14: in a buildSyncDelta result a non-empty deletedMessageIds list and a
\* reactionDelta are each in at most one payload, which is the last payload
\* that carries a messageDelta; no earlier chunk and no trailing payload
\* carries them.
C14_DeletionsAndReactionsInLastChunk ==
    Built =>
        LET withDeleted == {i \in MessageChunks :
                               payloads[i].messageDelta[1].deletedMessageIds # <<>>}
            withReactions == {i \in 1..Len(payloads) : payloads[i].reactionDelta # None}
        IN  \A i \in withDeleted \cup withReactions :
                /\ i \in MessageChunks
                /\ \A j \in MessageChunks : j <= i

\* Three message chunks, the last with the tombstoned ids and the reaction
\* delta, then a trailing payload
C14_Witness ==
    /\ Built
    /\ Cardinality(MessageChunks) = 3
    /\ payloads[3].messageDelta[1].deletedMessageIds # <<>>
    /\ payloads[3].reactionDelta # None
    /\ TrailingPayloads = {4}

\* C15: buildSyncDelta appends a trailing payload without messageDelta iff
\* the member delta is non-empty, or the peer-map delta is non-empty, or
\* there are no message chunks; memberDelta and peerMapDelta are only in that
\* trailing payload; without a trailing payload the last message chunk is
\* the final payload.
C15_TrailingPayloadRule ==
    (Built /\ applied = 0) =>
        LET cache == payloadCache[Key]
            memberChanges ==
                \E a \in DOMAIN cache.memberMap :
                    \/ a \notin DOMAIN rcptMembers
                    \/ createMemberDigest(cache.memberMap[a])
                          # createMemberDigest(rcptMembers[a])
            peerChanges ==
                LookupAll(computePeerDiff(rcptPeerIds, MapKeys(peerEntries)).extraPeerIds,
                          peerEntries) # <<>>
            noChunks == MessageChunks = {}
        IN  /\ (TrailingPayloads # {}) <=> (memberChanges \/ peerChanges \/ noChunks)
            /\ TrailingPayloads \subseteq {Len(payloads)}
            /\ \A i \in MessageChunks :
                  payloads[i].memberDelta = None /\ payloads[i].peerMapDelta = None
            /\ (\E i \in 1..Len(payloads) : payloads[i].memberDelta # None)
                  <=> memberChanges
            /\ TrailingPayloads = {} =>
                  /\ Len(payloads) \in MessageChunks
                  /\ payloads[Len(payloads)].isFinal

\* Two message chunks and no trailing payload: the recipient already holds
\* the members
C15_Witness ==
    /\ Built
    /\ applied = 0
    /\ Cardinality(MessageChunks) = 2
    /\ TrailingPayloads = {}
    /\ payloads[2].isFinal

\* C16: for every peer id of ourPeerEntries absent from theirPeerIds the
\* final payload carries a peerMapDelta whose added list holds that peer's
\* entry, and added holds no entry of a peer id theirPeerIds lists.
C16_PeerMapDeltaAddsMissingPeers ==
    Built =>
        LET final == payloads[Len(payloads)]
            added == IF final.peerMapDelta # None
                     THEN SeqToSet(final.peerMapDelta[1].added) ELSE {}
        IN  /\ \A id \in DOMAIN peerEntries :
                  id \notin SeqToSet(rcptPeerIds) => peerEntries[id] \in added
            /\ \A e \in added : e.peerId \notin SeqToSet(rcptPeerIds)

----------------------------------------------------------------------------
(* SpecRoster: buildSyncDelta and applySyncDelta between a sender and a    *)
(* recipient whose member lists differ in addresses, names and icons.      *)

\* A member as a side holds it: under the name x or y, or as x with an icon
RosterMember(addr, ver) ==
    CASE ver = "x-img" -> [Member(addr, "x") EXCEPT !.profile_image = "img"]
      [] OTHER -> Member(addr, ver)

\* The member lists a side may hold ("none": the address is absent)
RosterChoices ==
    {[a \in {x \in {"a1", "a2"} : v[x] # "none"} |-> RosterMember(a, v[a])] :
        v \in [{"a1", "a2"} -> {"none", "x", "y", "x-img"}]}

InitRoster ==
    /\ storage \in {EmptyMap, StoreOf([id \in MessageIds |->
                                          IF id = "m1" THEN "a" ELSE "none"])}
    /\ storageMembers \in RosterChoices
    /\ payloadCache = getPayloadCache(EmptyMap, storage, storageMembers,
                                      SpaceId, ChannelId)
    /\ rcptStorage = EmptyMap
    /\ rcptMembers \in RosterChoices
    /\ tombstones = <<>>
    /\ peerEntries = [id \in {1, 2} |-> PeerEntry(id)]
    /\ rcptPeerIds = <<1>>
    /\ rcptManifest = None
    /\ diff = NoDiff
    /\ payloads = <<>>
    /\ applied = 0
    /\ sessions = [sp \in {SpaceId} |-> SyncingSession]
    /\ timers = EmptyMap
    /\ nextTimer = 1
    /\ now = 0
    /\ initiated = <<>>
    /\ lastOp = "init"
    /\ ret = NoRet

SpecRoster == InitRoster /\ [][NextDelta]_vars

\* The members of the memberDelta of the returned payloads, in order
SentMembers ==
    LET carriers == {i \in 1..Len(payloads) : payloads[i].memberDelta # None}
    IN  IF carriers = {} THEN <<>>
        ELSE payloads[CHOOSE i \in carriers : TRUE].memberDelta[1].members

\* C17: the members of the memberDelta of buildSyncDelta are exactly our
\* cached members whose address the recipient's digests lack or whose
\* displayNameHash or iconHash differs from the recipient's digest; a member
\* only the recipient has is never sent.
C17_MemberDeltaIsOursAbsentOrDifferent ==
    (Built /\ applied = 0) =>
        LET ours == payloadCache[Key].memberMap
            theirs == [a \in DOMAIN rcptMembers |-> createMemberDigest(rcptMembers[a])]
            differs(a) ==
                \/ a \notin DOMAIN theirs
                \/ computeMemberHash(ours[a]).displayNameHash # theirs[a].displayNameHash
                \/ computeMemberHash(ours[a]).iconHash # theirs[a].iconHash
            expected == {ours[a] : a \in {x \in DOMAIN ours : differs(x)}}
        IN  /\ SeqToSet(SentMembers) = expected
            /\ Len(SentMembers) = Cardinality(expected)
            /\ \A i \in 1..Len(payloads) :
                  payloads[i].memberDelta # None =>
                      payloads[i].memberDelta[1].members # <<>>
            /\ \A m \in SeqToSet(SentMembers) : m.address \in DOMAIN ours

\* We hold a1 under another name than the recipient, who alone holds a2:
\* our a1 is sent and nothing of a2
C17_Witness ==
    /\ Built
    /\ applied = 0
    /\ DOMAIN storageMembers = {"a1"}
    /\ DOMAIN rcptMembers = {"a1", "a2"}
    /\ rcptMembers["a1"].display_name # storageMembers["a1"].display_name
    /\ SentMembers = <<storageMembers["a1"]>>

----------------------------------------------------------------------------
(* Claims about computeMessageDiff, on the sender's manifest and the       *)
(* manifest the recipient sent                                             *)

\* C18: computeMessageDiff(ours, theirs) returns as missingIds the ids of
\* theirs that ours lacks, as extraIds the ids of ours that theirs lacks and
\* as outdatedIds the ids of both whose contentHash differs and whose
\* modified time in theirs is strictly greater than in ours; the three are
\* pairwise disjoint, and missingIds of diff(A, B) is extraIds of diff(B, A).
C18_MessageDiffSets ==
    Built =>
        LET ours == getManifest(payloadCache[Key])
            theirs == rcptManifest[1]
            ourD == {ours.digests[i] : i \in 1..Len(ours.digests)}
            theirD == {theirs.digests[i] : i \in 1..Len(theirs.digests)}
            ourIds == {d.messageId : d \in ourD}
            theirIds == {d.messageId : d \in theirD}
            missing == SeqToSet(diff.missingIds)
            outdated == SeqToSet(diff.outdatedIds)
            extra == SeqToSet(diff.extraIds)
            back == computeMessageDiff(theirs, ours)
        IN  /\ missing = theirIds \ ourIds
            /\ extra = ourIds \ theirIds
            /\ outdated =
                  {id \in ourIds \cap theirIds :
                      \E o \in ourD, t \in theirD :
                          /\ o.messageId = id
                          /\ t.messageId = id
                          /\ o.contentHash # t.contentHash
                          /\ ModifiedOf(t) > ModifiedOf(o)}
            /\ missing \cap outdated = {}
            /\ missing \cap extra = {}
            /\ outdated \cap extra = {}
            /\ diff.missingIds = back.extraIds
            /\ diff.extraIds = back.missingIds

\* One id of each kind: the recipient alone holds one message, holds a
\* newer edit of a second one, and lacks a third
C18_Witness ==
    /\ Built
    /\ Len(diff.missingIds) = 1
    /\ Len(diff.outdatedIds) = 1
    /\ Len(diff.extraIds) = 1

\* C33: for the sender's manifest A and the recipient's manifest B, every id
\* present in both with different contentHash is in outdatedIds of
\* computeMessageDiff(A, B) or in outdatedIds of computeMessageDiff(B, A): at
\* least one side learns that its copy must be replaced.
C33_ReciprocalDetection ==
    Built =>
        LET ours == getManifest(payloadCache[Key])
            theirs == rcptManifest[1]
            ourDigests == MapFromList(ours.digests, "messageId")
            theirDigests == MapFromList(theirs.digests, "messageId")
            reverse == computeMessageDiff(theirs, ours)
        IN  \A id \in DOMAIN ourDigests \cap DOMAIN theirDigests :
                ourDigests[id].contentHash # theirDigests[id].contentHash
                    => \/ id \in SeqToSet(diff.outdatedIds)
                       \/ id \in SeqToSet(reverse.outdatedIds)

\* C34: after buildSyncDelta every tombstone recorded for (SpaceId,
\* ChannelId) has its messageId in the deletedMessageIds of some returned
\* payload, whether or not the diff yields new or updated messages, and the
\* messageId of a tombstone of another channel is in none.
C34_TombstonesTravel ==
    Built =>
        LET sent == UNION {SeqToSet(payloads[i].messageDelta[1].deletedMessageIds) :
                              i \in {j \in 1..Len(payloads) : payloads[j].messageDelta # None}}
        IN  \A k \in 1..Len(tombstones) :
                IF tombstones[k].spaceId = SpaceId /\ tombstones[k].channelId = ChannelId
                THEN tombstones[k].messageId \in sent
                ELSE tombstones[k].messageId \notin sent

----------------------------------------------------------------------------
(* SpecApply: a recipient receives one sync-delta payload and runs         *)
(* applySyncDelta on it again and again (a sender that repeats a payload). *)

MaxApplies == 2

ReactionChange(messageId, emojiId, memberIds) ==
    [messageId |-> messageId, emojiId |-> emojiId, memberIds |-> memberIds]

MessageDeltaChoices ==
    {None} \cup
    {Some([spaceId |-> SpaceId, channelId |-> ChannelId,
           newMessages |-> n, updatedMessages |-> u, deletedMessageIds |-> d]) :
        n \in {<<>>, <<Msg("m1", ChannelId, 1, "a")>>, <<Msg("m2", ChannelId, 2, "b")>>},
        u \in {<<>>, <<Msg("m1", ChannelId, 1, "b")>>},
        d \in {<<>>, <<"m2">>}}

ReactionDeltaChoices ==
    {None} \cup
    {Some([spaceId |-> SpaceId, channelId |-> ChannelId, added |-> a, removed |-> r]) :
        a \in {<<>>,
               <<ReactionChange("m1", "e1", <<"u1">>)>>,
               <<ReactionChange("m1", "e1", <<"u2", "u3">>),
                 ReactionChange("m1", "e2", <<"u1">>)>>},
        r \in {<<>>,
               <<ReactionChange("m1", "e1", <<"u1">>)>>,
               <<ReactionChange("m1", "e1", <<"u1", "u2">>)>>}}

MemberDeltaChoices ==
    {None,
     Some([spaceId |-> SpaceId, members |-> <<Member("a1", "y")>>,
           removedAddresses |-> <<>>])}

PayloadChoices ==
    {[type |-> "sync-delta", messageDelta |-> m, reactionDelta |-> r,
      memberDelta |-> mb, peerMapDelta |-> None, isFinal |-> f] :
        m \in MessageDeltaChoices, r \in ReactionDeltaChoices,
        mb \in MemberDeltaChoices, f \in BOOLEAN}

InitApply ==
    /\ IdleCache
    /\ \E v1 \in {"none", "a", "b", "b0"}, v2 \in {"none", "b"} :
          rcptStorage = StoreOf([id \in MessageIds |->
                                    CASE id = "m1" -> v1 [] id = "m2" -> v2
                                      [] OTHER -> "none"])
    /\ rcptMembers \in MemberChoices
    /\ \E p \in PayloadChoices : payloads = <<p>>
    /\ applied = 0
    /\ tombstones = <<>>
    /\ rcptManifest = None
    /\ rcptPeerIds = <<>>
    /\ peerEntries = EmptyMap
    /\ diff = NoDiff
    /\ sessions = [sp \in {SpaceId} |-> SyncingSession]
    /\ timers = EmptyMap
    /\ nextTimer = 1
    /\ now = 0
    /\ initiated = <<>>
    /\ lastOp = "init"
    /\ ret = NoRet

\* The recipient runs applySyncDelta on the payload, once more
ApplySamePayload ==
    /\ applied < MaxApplies
    /\ LET delta == payloads[1]
       IN  /\ rcptStorage' = applySyncDeltaMessages(rcptStorage, delta)
           /\ rcptMembers' = applySyncDeltaMembers(rcptMembers, delta)
           /\ sessions' = applySyncDeltaSessions(sessions, delta)
    /\ applied' = applied + 1
    /\ lastOp' = "applySyncDelta"
    /\ UNCHANGED <<cacheVars, tombstones, rcptManifest, rcptPeerIds, peerEntries,
                   diff, payloads, timers, nextTimer, now, initiated, ret>>

NextApply == ApplySamePayload

SpecApply == InitApply /\ [][NextApply]_vars

----------------------------------------------------------------------------
(* Claims about the session buildSyncRequest creates *)

\* C20: when buildSyncRequest returns, the space has a session with
\* expiry = now + requestExpiry, which is the expiry of the returned payload,
\* no candidates, inProgress false and no syncTarget, whatever session the
\* space had before; and hasActiveSession answers true for a session, and
\* keeps it, as long as now is not past its expiry.
C20_BuildSyncRequestSession ==
    [][/\ ret'.op = "buildSyncRequest" =>
             /\ SpaceId \in DOMAIN sessions'
             /\ sessions'[SpaceId].spaceId = SpaceId
             /\ sessions'[SpaceId].channelId = ChannelId
             /\ sessions'[SpaceId].expiry = now' + requestExpiry
             /\ sessions'[SpaceId].expiry = ret'.val.expiry
             /\ sessions'[SpaceId].candidates = <<>>
             /\ sessions'[SpaceId].inProgress = FALSE
             /\ sessions'[SpaceId].syncTarget = None
       /\ (ret'.op = "hasActiveSession" /\ SpaceId \in DOMAIN sessions) =>
             /\ ret'.val = (now <= sessions[SpaceId].expiry)
             /\ ret'.val => sessions' = sessions]_vars

\* buildSyncRequest has just replaced a session that had collected a
\* candidate, at a time after the start
C20_Witness ==
    /\ ret.op = "buildSyncRequest"
    /\ now >= 1
    /\ nextTimer > 1
    /\ SpaceId \in DOMAIN sessions
    /\ sessions[SpaceId].expiry = now + requestExpiry
    /\ sessions[SpaceId].candidates = <<>>

----------------------------------------------------------------------------
(* SpecSelect: candidates arrive at a session one by one, with equal or    *)
(* different message and member counts, and the service is asked for the   *)
(* best one in between.                                                    *)

\* Candidates that arrive at the session
MaxArrivals == 3

\* The inbox address of the k-th candidate to arrive
ArrivalInbox(k) == <<"p1", "p2", "p3", "p4">>[k]

InitSelect ==
    /\ IdleCache
    /\ IdleDelta
    /\ sessions \in {EmptyMap, [sp \in {SpaceId} |-> NewSession(SpaceId, ChannelId, 30)]}
    /\ timers = EmptyMap
    /\ nextTimer = 1
    /\ now = 0
    /\ initiated = <<>>
    /\ lastOp = "init"
    /\ ret = NoRet

\* addCandidate(space, candidate) for the next sync-info that arrives
CandidateArrives ==
    \E messageCount \in 1..2, memberCount \in 1..2 :
        /\ SpaceId \in DOMAIN sessions
        /\ Len(sessions[SpaceId].candidates) < MaxArrivals
        /\ LET k == Len(sessions[SpaceId].candidates) + 1
               r == addCandidate(sessions, timers, nextTimer, now, SpaceId,
                                 Candidate(ArrivalInbox(k), messageCount, memberCount))
           IN  /\ sessions' = r.sessions
               /\ timers' = r.timers
               /\ nextTimer' = r.nextTimer
        /\ Returned("addCandidate", None)
        /\ UNCHANGED <<cacheVars, deltaVars, now, initiated, lastOp>>

NextSelect ==
    \/ CandidateArrives
    \/ SelectBestCandidate

SpecSelect == InitSelect /\ [][NextSelect]_vars

\* Candidate a is at least as good as candidate b: more messages, or as many
\* messages and at least as many members
AtLeastAsGood(a, b) ==
    \/ a.summary.messageCount > b.summary.messageCount
    \/ /\ a.summary.messageCount = b.summary.messageCount
       /\ a.summary.memberCount >= b.summary.memberCount

\* C21: selectBestCandidate returns null for a session without candidates
\* (or no session), and otherwise the earliest-arrived candidate among those
\* with the greatest messageCount and, among these, the greatest
\* memberCount; it leaves the session's candidate list as it was, and the
\* list is always in arrival order.
C21_SelectBestCandidate ==
    [][ret'.op = "selectBestCandidate" =>
          /\ sessions' = sessions
          /\ IF SpaceId \notin DOMAIN sessions \/ sessions[SpaceId].candidates = <<>>
             THEN ret'.val = None
             ELSE LET cs == sessions[SpaceId].candidates
                      best == {i \in 1..Len(cs) :
                                  \A j \in 1..Len(cs) : AtLeastAsGood(cs[i], cs[j])}
                  IN  /\ best # {}
                      /\ \E i \in best :
                            /\ \A j \in best : i <= j
                            /\ ret'.val = Some(cs[i])
                      /\ \A k \in 1..Len(cs) : cs[k].inboxAddress = ArrivalInbox(k)]_vars

\* The second of three candidates is returned: it ties with the third and
\* beats the first
C21_Witness ==
    /\ ret.op = "selectBestCandidate"
    /\ SpaceId \in DOMAIN sessions
    /\ Len(sessions[SpaceId].candidates) = 3
    /\ ret.val = Some(sessions[SpaceId].candidates[2])
    /\ sessions[SpaceId].candidates[3].summary = sessions[SpaceId].candidates[2].summary
    /\ sessions[SpaceId].candidates[1].summary # sessions[SpaceId].candidates[2].summary

----------------------------------------------------------------------------
(* Claims about cancelSync *)

\* C22: when cancelSync(space) returns the space has no session and the
\* timer the cancelled session owned is no longer pending; a timer that is
\* not pending never becomes pending again, so its callback never runs and
\* onInitiateSync is not invoked for the cancelled session.
C22_CancelSyncStopsTimer ==
    [][/\ ret'.op = "cancelSync" =>
             /\ SpaceId \notin DOMAIN sessions'
             /\ SpaceId \in DOMAIN sessions =>
                   sessions[SpaceId].timeout \notin DOMAIN timers'
             /\ initiated' = initiated
       /\ \A id \in 1..(nextTimer - 1) :
             id \notin DOMAIN timers => id \notin DOMAIN timers']_vars

\* cancelSync has just removed a session whose timer, set at time 0, had
\* not fired
C22_Witness ==
    /\ ret.op = "cancelSync"
    /\ SpaceId \notin DOMAIN sessions
    /\ now = 0
    /\ nextTimer = 2
    /\ timers = EmptyMap
    /\ initiated = <<>>

\* C35: at every moment at most one initiation timer is pending for the
\* space, and a pending timer is the one the space's current session owns:
\* no older timer stays pending to fire against a newer session.
C35_OnePendingTimerPerSpace ==
    /\ Cardinality({id \in DOMAIN timers : timers[id].spaceId = SpaceId}) <= 1
    /\ \A id \in DOMAIN timers :
          /\ timers[id].spaceId \in DOMAIN sessions
          /\ sessions[timers[id].spaceId].timeout = id

\* C32: addCandidate for a space with no session, or with a session whose
\* expiry has passed (now > expiry), changes nothing: the sessions and their
\* candidate lists are unchanged and no timer is scheduled, replaced or
\* cleared.
C32_LateAddCandidateChangesNothing ==
    [][(/\ ret'.op = "addCandidate"
        /\ now' = now
        /\ \/ SpaceId \notin DOMAIN sessions
           \/ now > sessions[SpaceId].expiry)
          => /\ sessions' = sessions
             /\ timers' = timers
             /\ nextTimer' = nextTimer
             /\ initiated' = initiated]_vars

\* addCandidate has just returned on a session that expired while it owned a
\* pending host timer and had no candidate
C32_Witness ==
    /\ ret.op = "addCandidate"
    /\ SpaceId \in DOMAIN sessions
    /\ now > sessions[SpaceId].expiry
    /\ sessions[SpaceId].candidates = <<>>
    /\ sessions[SpaceId].timeout \in DOMAIN timers

----------------------------------------------------------------------------
(* SpecThrow: the sessions and timers of SpecSession with a host whose     *)
(* onInitiateSync may raise an error.                                      *)

\* What a call of the host's onInitiateSync does
HostOutcomes == {"returns", "throws"}

\* A pending timer whose delay has passed runs its callback (part_001
\* lines 471-473 and 559-567). Neither the arrow function handed to
\* setTimeout nor the callback of addCandidate has a try/catch, so an error
\* raised by onInitiateSync leaves the callback: ret.uncaught tells whether
\* an error reached the host's event loop.
TimerFiresHostMayThrow ==
    \E id \in DOMAIN timers, outcome \in HostOutcomes :
        /\ now >= timers[id].due
        /\ timers' = clearTimeout(timers, id)
        /\ IF timers[id].callback = "aggressive"
           THEN LET best == selectBestCandidate(sessions, timers[id].spaceId)
                IN  IF best # None /\ best[1].inboxAddress # ""
                    THEN /\ initiated' = Append(initiated,
                                [spaceId |-> timers[id].spaceId,
                                 target |-> best[1].inboxAddress])
                         /\ ret' = [op |-> "timer", val |-> Some(best[1].inboxAddress),
                                    uncaught |-> (outcome = "throws")]
                    ELSE /\ initiated' = initiated
                         /\ ret' = [op |-> "timer", val |-> None, uncaught |-> FALSE]
           ELSE /\ initiated' = initiated
                /\ ret' = [op |-> "timer", val |-> None, uncaught |-> FALSE]
        /\ UNCHANGED <<cacheVars, deltaVars, sessions, nextTimer, now, lastOp>>

NextThrow ==
    \/ Tick
    \/ BuildSyncRequest
    \/ AddCandidate
    \/ TimerFiresHostMayThrow
    \/ CancelSync

SpecThrow == InitSession /\ [][NextThrow]_vars

\* C23: when onInitiateSync raises an error inside the aggressive-timeout
\* callback, the callback catches it, so no error reaches the host's event
\* loop, and the session's candidates, inProgress, syncTarget and expiry are
\* unchanged.
C23_HostErrorIsContained ==
    [][ret'.op = "timer" =>
          /\ ~ret'.uncaught
          /\ sessions' = sessions]_vars

----------------------------------------------------------------------------
(* SpecFail: the calls of the sync protocol over a storage whose calls may *)
(* reject. ret.error is the error the call rejected with (None when it     *)
(* resolved).                                                               *)

\* The storage calls of getPayloadCache that may reject
LoadFailures == {"none", "getMessages", "getSpaceMembers"}

\* getPayloadCache that installs an empty entry when storage rejects
getPayloadCacheInstallOnFail(pc, store, members, spaceId, channelId, fail) ==
    LET key == getCacheKey(spaceId, channelId)
    IN  IF key \in DOMAIN pc THEN [cache |-> pc, error |-> None]
        ELSE IF fail # "none"
        THEN [cache |-> MapSet(pc, key, buildPayloadCache(spaceId, channelId, <<>>, <<>>)),
              error |-> Some(fail)]
        ELSE [cache |-> getPayloadCache(pc, store, members, spaceId, channelId),
              error |-> None]

\* getPayloadCache(spaceId, channelId) when the storage call `fail` rejects:
\* a cached entry is returned without a storage call; otherwise the awaited
\* storage call throws before payloadCache.set
getPayloadCacheOrFail(pc, store, members, spaceId, channelId, fail) ==
    LET key == getCacheKey(spaceId, channelId)
    IN  IF key \in DOMAIN pc THEN [cache |-> pc, error |-> None]
        ELSE IF fail # "none" THEN [cache |-> pc, error |-> Some(fail)]
        ELSE [cache |-> getPayloadCache(pc, store, members, spaceId, channelId),
              error |-> None]

InitFail ==
    /\ storage = [id \in {"m1"} |-> SeedStore[id]]
    /\ storageMembers = EmptyMap
    /\ payloadCache = EmptyMap
    /\ sessions \in {EmptyMap, [sp \in {SpaceId} |-> SyncingSession]}
    /\ timers = EmptyMap
    /\ nextTimer = 1
    /\ now = 0
    /\ initiated = <<>>
    /\ lastOp = "init"
    /\ ret = NoRet
    /\ IdleDelta

Resolved(op, val) == ret' = [op |-> op, val |-> val, error |-> None]

Rejected(op, error) == ret' = [op |-> op, val |-> None, error |-> error]

BuildSyncRequestMayFail ==
    \E fail \in LoadFailures :
        LET r == getPayloadCacheOrFail(payloadCache, storage, storageMembers,
                                       SpaceId, ChannelId, fail)
        IN  /\ payloadCache' = r.cache
            /\ IF r.error # None
               THEN /\ sessions' = sessions
                    /\ Rejected("buildSyncRequest", r.error)
               ELSE /\ sessions' = MapSet(sessions, SpaceId,
                                     NewSession(SpaceId, ChannelId, now + requestExpiry))
                    /\ Resolved("buildSyncRequest",
                                [type |-> "sync-request", inboxAddress |-> "me",
                                 expiry |-> now + requestExpiry,
                                 summary |-> getSummary(r.cache[Key])])
            /\ UNCHANGED <<storage, storageMembers, deltaVars, timers, nextTimer, now,
                           initiated, lastOp>>

BuildSyncInfoMayFail ==
    \E fail \in LoadFailures :
        LET r == getPayloadCacheOrFail(payloadCache, storage, storageMembers,
                                       SpaceId, ChannelId, fail)
            theirSummary == getSummary(buildPayloadCache(SpaceId, ChannelId, <<>>, <<>>))
        IN  /\ payloadCache' = r.cache
            /\ IF r.error # None THEN Rejected("buildSyncInfo", r.error)
               ELSE Resolved("buildSyncInfo", buildSyncInfo(r.cache[Key], "me", theirSummary))
            /\ UNCHANGED <<storage, storageMembers, deltaVars, sessVars, lastOp>>

BuildSyncInitiateMayFail ==
    \E fail \in LoadFailures :
        LET candidate == selectBestCandidate(sessions, SpaceId)
            r == getPayloadCacheOrFail(payloadCache, storage, storageMembers,
                                       SpaceId, ChannelId, fail)
        IN  /\ IF candidate = None
               THEN /\ sessions' = MapDelete(sessions, SpaceId)
                    /\ payloadCache' = payloadCache
                    /\ Resolved("buildSyncInitiate", None)
               ELSE IF r.error # None
               THEN /\ sessions' = sessions
                    /\ payloadCache' = r.cache
                    /\ Rejected("buildSyncInitiate", r.error)
               ELSE /\ sessions' = buildSyncInitiate(sessions, SpaceId).sessions
                    /\ payloadCache' = r.cache
                    /\ Resolved("buildSyncInitiate", Some(candidate[1].inboxAddress))
            /\ UNCHANGED <<storage, storageMembers, deltaVars, timers, nextTimer, now,
                           initiated, lastOp>>

BuildSyncManifestMayFail ==
    \E fail \in LoadFailures :
        LET r == getPayloadCacheOrFail(payloadCache, storage, storageMembers,
                                       SpaceId, ChannelId, fail)
        IN  /\ payloadCache' = r.cache
            /\ IF r.error # None THEN Rejected("buildSyncManifest", r.error)
               ELSE Resolved("buildSyncManifest",
                             [type |-> "sync-manifest", inboxAddress |-> "me",
                              manifest |-> getManifest(r.cache[Key]),
                              memberDigests |-> getMemberDigests(r.cache[Key]),
                              peerIds |-> <<>>])
            /\ UNCHANGED <<storage, storageMembers, deltaVars, sessVars, lastOp>>

BuildSyncDeltaMayFail ==
    \E fail \in LoadFailures :
        LET r == getPayloadCacheOrFail(payloadCache, storage, storageMembers,
                                       SpaceId, ChannelId, fail)
            theirs == buildPayloadCache(SpaceId, ChannelId, <<>>, <<>>)
        IN  /\ payloadCache' = r.cache
            /\ IF r.error # None THEN Rejected("buildSyncDelta", r.error)
               ELSE Resolved("buildSyncDelta",
                             buildSyncDelta(r.cache[Key], <<>>, SpaceId, ChannelId,
                                            getManifest(theirs), getMemberDigests(theirs),
                                            <<>>, EmptyMap))
            /\ UNCHANGED <<storage, storageMembers, deltaVars, sessVars, lastOp>>

\* applySyncDelta(delta) when storage.saveMessage rejects at the first
\* message of the messageDelta, or storage.saveSpaceMember at the first
\* member of the memberDelta: what was written before stays written, and
\* the lines after the rejected call (the session clean-up) do not run.
\* The payloads are those that carry new messages or members.
ApplySyncDeltaMayFail ==
    \E delta \in PayloadChoices, fail \in {"none", "saveMessage", "saveSpaceMember"} :
        LET failsAtMessages ==
                /\ fail = "saveMessage"
                /\ delta.messageDelta # None
                /\ delta.messageDelta[1].newMessages
                      \o delta.messageDelta[1].updatedMessages # <<>>
            failsAtMembers == fail = "saveSpaceMember" /\ delta.memberDelta # None
        IN  /\ delta.reactionDelta = None
            /\ delta.messageDelta # None =>
                  /\ delta.messageDelta[1].updatedMessages = <<>>
                  /\ delta.messageDelta[1].deletedMessageIds = <<>>
            /\ storage' = IF failsAtMessages THEN storage
                          ELSE applySyncDeltaMessages(storage, delta)
            /\ storageMembers' = IF failsAtMessages \/ failsAtMembers THEN storageMembers
                                 ELSE applySyncDeltaMembers(storageMembers, delta)
            /\ sessions' = IF failsAtMessages \/ failsAtMembers THEN sessions
                           ELSE applySyncDeltaSessions(sessions, delta)
            /\ IF failsAtMessages \/ failsAtMembers
               THEN Rejected("applySyncDelta", Some(fail))
               ELSE Resolved("applySyncDelta", None)
            /\ UNCHANGED <<payloadCache, deltaVars, timers, nextTimer, now, initiated,
                           lastOp>>

\* invalidateCache(space, channel) by the host, so that a later call loads again
InvalidateCacheOfChannel ==
    /\ payloadCache' = invalidateCache(payloadCache, SpaceId, ChannelId)
    /\ Returned("invalidateCache", None)
    /\ UNCHANGED <<storage, storageMembers, deltaVars, sessVars, lastOp>>

NextFail ==
    \/ BuildSyncRequestMayFail
    \/ BuildSyncInfoMayFail
    \/ BuildSyncInitiateMayFail
    \/ BuildSyncManifestMayFail
    \/ BuildSyncDeltaMayFail
    \/ ApplySyncDeltaMayFail
    \/ InvalidateCacheOfChannel
    \/ AddCandidate

SpecFail == InitFail /\ [][NextFail]_vars

FailingCalls ==
    {"buildSyncRequest", "buildSyncInfo", "buildSyncInitiate", "buildSyncManifest",
     "buildSyncDelta", "applySyncDelta"}

\* C24: a buildSyncRequest, buildSyncInfo, buildSyncInitiate (with a
\* candidate), buildSyncManifest, buildSyncDelta or applySyncDelta call
\* during which a storage call rejects, rejects with the error of that
\* storage call, leaves the session map exactly as it was and installs no
\* payload cache entry; and a build* call rejects whenever a storage call
\* of its load rejects.
C24_StorageFailureLeavesSessionsAndCache ==
    [][(ret'.op \in FailingCalls /\ ret'.error # None) =>
          /\ ret'.error[1] \in {"getMessages", "getSpaceMembers", "saveMessage",
                                "saveSpaceMember"}
          /\ (ret'.op # "applySyncDelta") =>
                /\ ret'.error[1] \in {"getMessages", "getSpaceMembers"}
                /\ Key \notin DOMAIN payloadCache
          /\ sessions' = sessions
          /\ payloadCache' = payloadCache]_vars

\* buildSyncInitiate has just rejected on a session with a candidate, which
\* is still not in progress
C24_Witness ==
    /\ ret.op = "buildSyncInitiate"
    /\ ret.error # None
    /\ SpaceId \in DOMAIN sessions
    /\ sessions[SpaceId].candidates # <<>>
    /\ ~sessions[SpaceId].inProgress
    /\ payloadCache = EmptyMap

----------------------------------------------------------------------------
(* SpecReads: build* calls on one (space, channel), one after the other,   *)
(* with the host's upserts, removals and invalidations in between. lastOp  *)
(* keeps whether the last build read storage (read), whether no build has  *)
(* run since the start or the last invalidateCache (fresh), and the        *)
(* messages and members the entry stands for: what storage held when it    *)
(* was read, with the later upserts and removals applied.                  *)

InitReads ==
    /\ storage \in StoreChoices
    /\ storageMembers \in MemberChoices
    /\ payloadCache = EmptyMap
    /\ lastOp = [op |-> "init", read |-> FALSE, fresh |-> TRUE,
                 messages |-> EmptyMap, members |-> EmptyMap]
    /\ ret = NoRet
    /\ IdleDelta
    /\ IdleSess

\* What a build* call records: it reads storage when no entry is cached
\* (getPayloadCache, lines 127-137)
BuildRecorded(op) ==
    LET read == Key \notin DOMAIN payloadCache
    IN  lastOp' = [op |-> op, read |-> read, fresh |-> FALSE,
                   messages |-> IF read
                                THEN [id \in {x \in DOMAIN storage :
                                                 /\ storage[x].spaceId = SpaceId
                                                 /\ storage[x].channelId = ChannelId}
                                         |-> storage[id]]
                                ELSE lastOp.messages,
                   members |-> IF read THEN storageMembers ELSE lastOp.members]

BuildSyncRequestRead ==
    /\ payloadCache' = getPayloadCache(payloadCache, storage, storageMembers,
                                       SpaceId, ChannelId)
    /\ sessions' = MapSet(sessions, SpaceId,
                          NewSession(SpaceId, ChannelId, now + requestExpiry))
    /\ Returned("buildSyncRequest",
                [type |-> "sync-request", inboxAddress |-> "me",
                 expiry |-> now + requestExpiry,
                 summary |-> getSummary(payloadCache'[Key])])
    /\ BuildRecorded("buildSyncRequest")
    /\ UNCHANGED <<storage, storageMembers, deltaVars, timers, nextTimer, now, initiated>>

BuildSyncManifestRead ==
    /\ payloadCache' = getPayloadCache(payloadCache, storage, storageMembers,
                                       SpaceId, ChannelId)
    /\ Returned("buildSyncManifest",
                [type |-> "sync-manifest", inboxAddress |-> "me",
                 manifest |-> getManifest(payloadCache'[Key]),
                 memberDigests |-> getMemberDigests(payloadCache'[Key]),
                 peerIds |-> <<>>])
    /\ BuildRecorded("buildSyncManifest")
    /\ UNCHANGED <<storage, storageMembers, deltaVars, sessVars>>

\* updateCacheWithMessage by the host; an entry that is not cached is left
\* to the next load
UpsertMessageBetween ==
    \E id \in {"m1", "m2"}, v \in {"a", "b"} :
        LET message == Msg(id, ChannelId, CreatedOf(id), v)
        IN  /\ payloadCache' = updateCacheWithMessage(payloadCache, SpaceId, ChannelId,
                                                      message)
            /\ lastOp' = [lastOp EXCEPT
                            !.op = "upsertMessage",
                            !.messages = IF lastOp.fresh THEN @ ELSE MapSet(@, id, message)]
            /\ Returned("upsertMessage", None)
            /\ UNCHANGED <<storage, storageMembers, deltaVars, sessVars>>

RemoveMessageBetween ==
    \E id \in {"m1", "m2"} :
        /\ payloadCache' = removeCacheMessage(payloadCache, SpaceId, ChannelId, id)
        /\ lastOp' = [lastOp EXCEPT
                        !.op = "removeMessage",
                        !.messages = IF lastOp.fresh THEN @ ELSE MapDelete(@, id)]
        /\ Returned("removeMessage", None)
        /\ UNCHANGED <<storage, storageMembers, deltaVars, sessVars>>

UpsertMemberBetween ==
    \E name \in {"x", "y"} :
        LET member == Member("a1", name)
        IN  /\ payloadCache' = updateCacheWithMember(payloadCache, SpaceId, ChannelId,
                                                     member)
            /\ lastOp' = [lastOp EXCEPT
                            !.op = "upsertMember",
                            !.members = IF lastOp.fresh THEN @
                                        ELSE MapSet(@, "a1", member)]
            /\ Returned("upsertMember", None)
            /\ UNCHANGED <<storage, storageMembers, deltaVars, sessVars>>

InvalidateBetween ==
    /\ payloadCache' = invalidateCache(payloadCache, SpaceId, ChannelId)
    /\ lastOp' = [lastOp EXCEPT !.op = "invalidateCache", !.fresh = TRUE]
    /\ Returned("invalidateCache", None)
    /\ UNCHANGED <<storage, storageMembers, deltaVars, sessVars>>

NextReads ==
    \/ BuildSyncRequestRead
    \/ BuildSyncManifestRead
    \/ UpsertMessageBetween
    \/ RemoveMessageBetween
    \/ UpsertMemberBetween
    \/ InvalidateBetween

SpecReads == InitReads /\ [][NextReads]_vars

\* The cache entry of the messages and members the entry stands for
Reflected ==
    buildPayloadCache(SpaceId, ChannelId, MapValues(lastOp.messages),
                      MapValues(lastOp.members))

\* A build* call reads storage exactly when it is the first call, or the
\* first after an invalidateCache of the key
ReadsOnlyWhenFresh ==
    [][lastOp'.op \in {"buildSyncRequest", "buildSyncManifest"}
          => lastOp'.read = lastOp.fresh]_vars

\* The ids, digests, counts and manifest hash a build* call returns are
\* those of the messages and members the entry stands for
ContentsReflected ==
    /\ ret.op = "buildSyncRequest" =>
          /\ ret.val.summary.messageCount = getSummary(Reflected).messageCount
          /\ ret.val.summary.memberCount = getSummary(Reflected).memberCount
          /\ ret.val.summary.manifestHash = getSummary(Reflected).manifestHash
    /\ ret.op = "buildSyncManifest" =>
          /\ SeqToSet(ret.val.manifest.digests) = SeqToSet(getManifest(Reflected).digests)
          /\ SeqToSet(ret.val.memberDigests) = SeqToSet(getMemberDigests(Reflected))

\* C25: in a sequence of build* calls on one (space, channel), each
\* completed before the next starts, storage is read only by the first call
\* and by the first call after an invalidateCache of the key, and the
\* summary and the manifest a call returns are those of the messages and
\* members the entry stands for: what storage held when it was read, with
\* the upsertMessage, removeMessage and upsertMember calls since applied.
C25_BuildsReflectEditsWithoutReads ==
    [][/\ lastOp'.op \in {"buildSyncRequest", "buildSyncManifest"}
             => lastOp'.read = lastOp.fresh
       /\ ret'.op = "buildSyncRequest" => ret'.val.summary = getSummary(Reflected')
       /\ ret'.op = "buildSyncManifest" =>
             /\ ContentsReflected'
             /\ ret'.val.manifest.messageCount = getManifest(Reflected').messageCount
             /\ ret'.val.manifest.oldestTimestamp = getManifest(Reflected').oldestTimestamp
             /\ ret'.val.manifest.newestTimestamp = getManifest(Reflected').newestTimestamp]_vars

----------------------------------------------------------------------------
(* SpecFrame: sync-delta payloads are applied to the storage of a service  *)
(* while build* calls are answered from its payload cache.                 *)

\* applySyncDelta(delta) at the service whose cache is observed: the
\* payloads add and edit messages, add reactions and save members
ApplyDeltaToStorage ==
    \E delta \in PayloadChoices :
        /\ delta.messageDelta # None =>
              /\ delta.messageDelta[1].newMessages # <<>>
              /\ delta.messageDelta[1].deletedMessageIds = <<>>
        /\ delta.reactionDelta # None =>
              /\ delta.reactionDelta[1].removed = <<>>
              /\ Len(delta.reactionDelta[1].added) = 1
        /\ storage' = applySyncDeltaMessages(storage, delta)
        /\ storageMembers' = applySyncDeltaMembers(storageMembers, delta)
        /\ sessions' = applySyncDeltaSessions(sessions, delta)
        /\ lastOp' = [lastOp EXCEPT !.op = "applySyncDelta"]
        /\ Returned("applySyncDelta", None)
        /\ UNCHANGED <<payloadCache, deltaVars, timers, nextTimer, now, initiated>>

NextFrame ==
    \/ ApplyDeltaToStorage
    \/ BuildSyncRequestRead
    \/ BuildSyncManifestRead

SpecFrame == InitReads /\ [][NextFrame]_vars

\* C26: applySyncDelta, with the message, reaction and member deltas it
\* applies, writes to storage only: whatever was applied since, the payload
\* cache entry (maps, timestamps, manifestHashBytes) is the one built from
\* what storage held when the entry was loaded, and the summaries and
\* manifests built after an apply, with no invalidateCache or upsert in
\* between, are those of that entry.
C26_ApplyLeavesCacheAlone ==
    /\ Key \in DOMAIN payloadCache => payloadCache[Key] = Reflected
    /\ ret.op = "buildSyncRequest" => ret.val.summary = getSummary(Reflected)
    /\ ret.op = "buildSyncManifest" =>
          /\ ret.val.manifest = getManifest(Reflected)
          /\ ret.val.memberDigests = getMemberDigests(Reflected)

\* A manifest built from the cache after an apply wrote a message and a
\* member the entry does not hold
C26_Witness ==
    /\ ret.op = "buildSyncManifest"
    /\ ~lastOp.read
    /\ "m2" \in DOMAIN storage
    /\ "m2" \notin DOMAIN lastOp.messages
    /\ "a1" \in DOMAIN storageMembers
    /\ "a1" \notin DOMAIN lastOp.members

----------------------------------------------------------------------------
(* Claims about the boundaries and the empty state of a cache entry *)

\* C27: in every state of a cache entry, after any sequence of upsertMessage
\* and removeMessage, oldestTimestamp <= m.createdDate <= newestTimestamp
\* for every message m of messageMap.
C27_TimestampsEncloseMessages ==
    Cached =>
        LET c == payloadCache[Key]
        IN  \A id \in DOMAIN c.messageMap :
                /\ c.oldestTimestamp <= c.messageMap[id].createdDate
                /\ c.messageMap[id].createdDate <= c.newestTimestamp

\* Boundaries that enclose the messages without being tight: the entry was
\* loaded from an empty channel and holds two messages since
C27_Witness ==
    /\ Cached
    /\ storage = EmptyMap
    /\ Cardinality(DOMAIN payloadCache[Key].messageMap) = 2
    /\ \A id \in DOMAIN payloadCache[Key].messageMap :
          payloadCache[Key].oldestTimestamp < payloadCache[Key].messageMap[id].createdDate

----------------------------------------------------------------------------
(* SpecChunk: chunkMessages on lists of small, medium and oversized         *)
(* messages; ret.arg is the list and ret.val the chunks returned for it.   *)

\* Longest list handed to chunkMessages
MaxChunkInput == 4

\* The k-th message of a list has its own id
ChunkInputId(k) == <<"m1", "m2", "m3", "m4", "m5">>[k]

ChunkInputs ==
    UNION {{[k \in 1..n |-> Msg(ChunkInputId(k), ChannelId, k, v[k])] :
               v \in [1..n -> Texts]} : n \in 0..MaxChunkInput}

InitChunk ==
    /\ IdleCache
    /\ IdleDelta
    /\ IdleSess
    /\ lastOp = "init"
    /\ \E messages \in ChunkInputs :
          ret = [op |-> "input", arg |-> messages, val |-> <<>>]

ChunkMessages ==
    /\ ret.op = "input"
    /\ ret' = [op |-> "chunkMessages", arg |-> ret.arg, val |-> chunkMessages(ret.arg)]
    /\ UNCHANGED <<cacheVars, deltaVars, sessVars, lastOp>>

NextChunk == ChunkMessages

SpecChunk == InitChunk /\ [][NextChunk]_vars

RECURSIVE Flatten(_)
\* The concatenation of the chunks, in order
Flatten(chunks) ==
    IF chunks = <<>> THEN <<>> ELSE Head(chunks) \o Flatten(Tail(chunks))

RECURSIVE ChunkSize(_)
\* The total serialized size of the messages of a chunk
ChunkSize(chunk) ==
    IF chunk = <<>> THEN 0 ELSE jsonSize(Head(chunk)) + ChunkSize(Tail(chunk))

\* C29: for every input list chunkMessages returns non-empty chunks whose
\* concatenation, in order, is the input list: no message is dropped,
\* duplicated, split or reordered.
C29_ChunksConcatenateToInput ==
    ret.op = "chunkMessages" =>
        /\ \A i \in 1..Len(ret.val) : ret.val[i] # <<>>
        /\ Flatten(ret.val) = ret.arg

\* A list of four messages returned as three chunks, one of them a single
\* oversized message
C29_Witness ==
    /\ ret.op = "chunkMessages"
    /\ Len(ret.arg) = 4
    /\ Len(ret.val) = 3
    /\ \E i \in 1..3 : ChunkSize(ret.val[i]) > MAX_CHUNK_SIZE

\* C30: in a chunkMessages result a chunk of two or more messages has a
\* total serialized size of at most MAX_CHUNK_SIZE, a message larger than
\* MAX_CHUNK_SIZE is alone in its chunk, and a chunk is closed before the
\* next message only if adding that message would exceed the cap or that
\* message is itself oversized.
C30_ChunksAreBoundedAndGreedy ==
    ret.op = "chunkMessages" =>
        \A i \in 1..Len(ret.val) :
            LET chunk == ret.val[i]
            IN  /\ Len(chunk) >= 2 => ChunkSize(chunk) <= MAX_CHUNK_SIZE
                /\ \A k \in 1..Len(chunk) :
                      jsonSize(chunk[k]) > MAX_CHUNK_SIZE => Len(chunk) = 1
                /\ i < Len(ret.val) =>
                      \/ ChunkSize(chunk) + jsonSize(ret.val[i + 1][1]) > MAX_CHUNK_SIZE
                      \/ jsonSize(ret.val[i + 1][1]) > MAX_CHUNK_SIZE

\* Two messages that fill a chunk to the cap, closed before a third small
\* message that did not fit
C30_Witness ==
    /\ ret.op = "chunkMessages"
    /\ Len(ret.val) >= 2
    /\ Len(ret.val[1]) = 2
    /\ ChunkSize(ret.val[1]) = MAX_CHUNK_SIZE
    /\ jsonSize(ret.val[2][1]) <= MAX_CHUNK_SIZE

----------------------------------------------------------------------------
(* SpecHash: content hashes of every content variant, and of one that the
   switch of computeContentHash does not list *)

\* The content types the switch of computeContentHash has a case for
ListedVariants ==
    {"post", "embed", "sticker", "edit-message", "remove-message", "join",
     "leave", "kick", "event", "update-profile", "mute", "pin", "reaction",
     "remove-reaction", "delete-conversation"}

Senders == {"u1", "u2"}

\* Contents of every listed variant, and a "poll", which a newer peer may
\* send and this version does not know
ContentChoices ==
    UNION {
      {[senderId |-> s, type |-> "post", text |-> t, repliesToMessageId |-> r] :
          t \in {"a", "b"}, r \in {"", "m1"}}
      \cup {[senderId |-> s, type |-> "embed", imageUrl |-> i, videoUrl |-> v,
             repliesToMessageId |-> r] :
          i \in {"", "img"}, v \in {"", "vid"}, r \in {"", "m1"}}
      \cup {[senderId |-> s, type |-> "sticker", stickerId |-> "s1",
             repliesToMessageId |-> r] : r \in {"", "m1"}}
      \cup {[senderId |-> s, type |-> "edit-message", originalMessageId |-> "m1",
             editedText |-> t, editedAt |-> e] : t \in {"a", "b"}, e \in 1..2}
      \cup {[senderId |-> s, type |-> "remove-message", removeMessageId |-> m] :
          m \in {"m1", "m2"}}
      \cup {[senderId |-> s, type |-> t] :
          t \in {"join", "leave", "kick", "delete-conversation"}}
      \cup {[senderId |-> s, type |-> "event", text |-> t] : t \in {"a", "b"}}
      \cup {[senderId |-> s, type |-> "update-profile", displayName |-> d,
             userIcon |-> "icon"] : d \in {"x", "y"}}
      \cup {[senderId |-> s, type |-> "mute", targetUserId |-> "u3", action |-> a,
             muteId |-> "mute1"] : a \in {"mute", "unmute"}}
      \cup {[senderId |-> s, type |-> "pin", targetMessageId |-> "m1", action |-> a] :
          a \in {"pin", "unpin"}}
      \cup {[senderId |-> s, type |-> t, messageId |-> "m1", reaction |-> e] :
          t \in {"reaction", "remove-reaction"}, e \in {"e1", "e2"}}
      \cup {[senderId |-> s, type |-> "poll", question |-> q] : q \in {"a", "b"}}
      : s \in Senders}

\* Message m1 of the channel with the given content
MsgOf(content) == [Msg("m1", ChannelId, 1, "a") EXCEPT !.content = content]

\* The service holds a loaded, empty entry of the channel; a message arrives
InitHash ==
    /\ storage = EmptyMap
    /\ storageMembers = EmptyMap
    /\ payloadCache = getPayloadCache(EmptyMap, EmptyMap, EmptyMap, SpaceId, ChannelId)
    /\ IdleDelta
    /\ IdleSess
    /\ lastOp = "init"
    /\ \E c \in ContentChoices :
          ret = [op |-> "input", arg |-> MsgOf(c), val |-> None, error |-> None]

\* computeContentHash(message): no path of the function throws
ComputeContentHash ==
    /\ ret' = [op |-> "computeContentHash", arg |-> ret.arg,
               val |-> Some(computeContentHash(ret.arg)), error |-> None]
    /\ UNCHANGED <<cacheVars, deltaVars, sessVars, lastOp>>

\* createMessageDigest(message)
CreateMessageDigest ==
    /\ ret' = [op |-> "createMessageDigest", arg |-> ret.arg,
               val |-> Some(createMessageDigest(ret.arg)), error |-> None]
    /\ UNCHANGED <<cacheVars, deltaVars, sessVars, lastOp>>

\* updateCacheWithMessage(spaceId, channelId, message)
UpsertMessageOfContent ==
    /\ payloadCache' = updateCacheWithMessage(payloadCache, SpaceId, ChannelId, ret.arg)
    /\ ret' = [op |-> "updateCacheWithMessage", arg |-> ret.arg, val |-> None,
               error |-> None]
    /\ UNCHANGED <<storage, storageMembers, deltaVars, sessVars, lastOp>>

NextHash ==
    \/ ComputeContentHash
    \/ CreateMessageDigest
    \/ UpsertMessageOfContent

SpecHash == InitHash /\ [][NextHash]_vars

\* C31: computeContentHash of a message whose content type is not a listed
\* variant fails with UnsupportedContent and returns no hash, and so do
\* createMessageDigest and the upsert of that message, which then stores no
\* digest of it.
C31_UnknownVariantFails ==
    (/\ ret.op \in {"computeContentHash", "createMessageDigest", "updateCacheWithMessage"}
     /\ ret.arg.content.type \notin ListedVariants)
        => /\ ret.error = Some("UnsupportedContent")
           /\ ret.val = None
           /\ ret.arg.messageId \notin DOMAIN payloadCache[Key].digestMap

----------------------------------------------------------------------------
(* SpecLive: one session that is neither removed nor replaced, and whose   *)
(* timer the host does not reschedule. The clock advances and the event    *)
(* loop runs a timer that is due.                                          *)

\* The sync-info senders: a candidate's inboxAddress is what the peer put in
\* its reply, and the third peer left it empty while reporting most messages
LiveCandidates == CandidateChoices \cup {Candidate("", 3, 1)}

\* buildSyncRequest of a space that has no session
BuildSyncRequestOnce ==
    /\ SpaceId \notin DOMAIN sessions
    /\ BuildSyncRequest

\* addCandidate(spaceId, candidate) while the clock can still reach the
\* timer's due time
CandidateArrivesInTime ==
    \E c \in LiveCandidates :
        /\ now < MaxTime
        /\ nextTimer <= MaxTimers
        /\ SpaceId \in DOMAIN sessions
              => Len(sessions[SpaceId].candidates) < MaxCandidates
        /\ LET r == addCandidate(sessions, timers, nextTimer, now, SpaceId, c)
           IN  /\ sessions' = r.sessions
               /\ timers' = r.timers
               /\ nextTimer' = r.nextTimer
        /\ Returned("addCandidate", None)
        /\ UNCHANGED <<cacheVars, deltaVars, now, initiated, lastOp>>

NextLive ==
    \/ Tick
    \/ BuildSyncRequestOnce
    \/ CandidateArrivesInTime
    \/ TimerFires

SpecLive ==
    InitSession /\ [][NextLive]_vars /\ WF_vars(Tick) /\ WF_vars(TimerFires)

\* The session has received its first candidate
FirstCandidateAdded ==
    SpaceId \in DOMAIN sessions /\ sessions[SpaceId].candidates # <<>>

\* The timer the session scheduled has run
TimerHasFired == nextTimer > 1 /\ timers = EmptyMap

\* C36 as stated: once a first candidate is added to the unexpired session
\* (which is not removed or replaced, its timer not rescheduled), the timer
\* eventually fires and onInitiateSync has been invoked exactly once, with
\* the inboxAddress of the best candidate at fire time.
C36_TimerInitiatesOnce ==
    /\ FirstCandidateAdded ~> (TimerHasFired /\ Len(initiated) = 1)
    /\ [][(ret'.op = "timer" /\ timers' # timers)
            => initiated' = Append(initiated,
                   [spaceId |-> SpaceId,
                    target |-> selectBestCandidate(sessions, SpaceId)[1].inboxAddress])]_vars

\* C36, amended: the timer eventually fires, once; at fire time it takes the
\* best candidate over all candidates received so far (no other candidate
\* has more messages, or as many messages and more members) and invokes
\* onInitiateSync(space, t) once with t that candidate's inboxAddress when
\* t is not empty, and does not invoke onInitiateSync when t is empty.
C36_TimerFiresOnceAndInitiatesValidTarget ==
    /\ FirstCandidateAdded ~> TimerHasFired
    /\ [](Len(initiated) <= 1)
    /\ [][(ret'.op = "timer" /\ timers' # timers)
            => \E k \in 1..Len(sessions[SpaceId].candidates) :
                  LET best == sessions[SpaceId].candidates[k]
                  IN  /\ \A j \in 1..Len(sessions[SpaceId].candidates) :
                            AtLeastAsGood(best, sessions[SpaceId].candidates[j])
                      /\ IF best.inboxAddress # ""
                         THEN initiated' = Append(initiated,
                                  [spaceId |-> SpaceId, target |-> best.inboxAddress])
                         ELSE initiated' = initiated]_vars

\* The timer fired over two candidates and initiated with the second, the
\* better one, which arrived after the timer was scheduled
C36_Witness ==
    /\ ret.op = "timer"
    /\ TimerHasFired
    /\ Len(sessions[SpaceId].candidates) = 2
    /\ Len(initiated) = 1
    /\ initiated[1].target = sessions[SpaceId].candidates[2].inboxAddress
    /\ initiated[1].target # sessions[SpaceId].candidates[1].inboxAddress

----------------------------------------------------------------------------
(* SpecRace: the calls on one space interleaved, with buildSyncInitiate    *)
(* suspended at its await of the cache load while other calls run.         *)

\* No buildSyncInitiate call is suspended
NoCall == [op |-> "none"]

InitRace ==
    /\ storage = [id \in {"m1"} |-> SeedStore[id]]
    /\ storageMembers = EmptyMap
    /\ payloadCache = EmptyMap
    /\ IdleDelta
    /\ IdleSess
    /\ lastOp = NoCall
    /\ ret = NoRet

\* buildSyncInitiate up to its await: it picks the candidate and returns
\* null (deleting the session) when there is none. With the entry cached
\* nothing is read from storage and the call runs through; otherwise it
\* suspends at the storage read with the candidate in a local.
BuildSyncInitiateBegins ==
    /\ lastOp = NoCall
    /\ LET candidate == selectBestCandidate(sessions, SpaceId)
       IN  IF candidate = None \/ Key \in DOMAIN payloadCache
           THEN /\ sessions' = buildSyncInitiate(sessions, SpaceId).sessions
                /\ lastOp' = lastOp
                /\ Returned("buildSyncInitiate", buildSyncInitiate(sessions, SpaceId).val)
           ELSE /\ sessions' = sessions
                /\ lastOp' = [op |-> "buildSyncInitiate", candidate |-> candidate[1]]
                /\ Returned("await", None)
    /\ UNCHANGED <<cacheVars, deltaVars, timers, nextTimer, now, initiated>>

\* buildSyncInitiate from its await on: the cache is loaded, the session
\* found now is marked in progress with the candidate picked before the
\* await, and the payload for that candidate is returned
BuildSyncInitiateResumes ==
    /\ lastOp # NoCall
    /\ payloadCache' = getPayloadCache(payloadCache, storage, storageMembers,
                                       SpaceId, ChannelId)
    /\ sessions' = setSyncTarget(setSyncInProgress(sessions, SpaceId, TRUE),
                                 SpaceId, lastOp.candidate.inboxAddress)
    /\ Returned("buildSyncInitiate", Some(lastOp.candidate.inboxAddress))
    /\ lastOp' = NoCall
    /\ UNCHANGED <<storage, storageMembers, deltaVars, timers, nextTimer, now,
                   initiated>>

NextRace ==
    \/ BuildSyncRequest
    \/ AddCandidate
    \/ BuildSyncInitiateBegins
    \/ BuildSyncInitiateResumes
    \/ CancelSync
    \/ ReceiveSyncDelta
    \/ InvalidateCache

SpecRace == InitRace /\ [][NextRace]_vars

\* C37: under every interleaving of buildSyncRequest, addCandidate,
\* buildSyncInitiate (suspended at the cache load), cancelSync and
\* applySyncDelta on one space, a session in progress has a syncTarget that
\* is the inboxAddress of one of its own candidates, and when
\* buildSyncInitiate returns a payload the session of the space exists and
\* is in progress with the returned target.
C37_InProgressTargetIsOwnCandidate ==
    /\ (SpaceId \in DOMAIN sessions /\ sessions[SpaceId].inProgress)
          => /\ sessions[SpaceId].syncTarget # None
             /\ \E k \in 1..Len(sessions[SpaceId].candidates) :
                   sessions[SpaceId].candidates[k].inboxAddress
                      = sessions[SpaceId].syncTarget[1]
    /\ (ret.op = "buildSyncInitiate" /\ ret.val # None)
          => /\ SpaceId \in DOMAIN sessions
             /\ sessions[SpaceId].inProgress
             /\ sessions[SpaceId].syncTarget = ret.val

----------------------------------------------------------------------------
(* SpecOverlap: two build* calls on one (space, channel) that may both be  *)
(* suspended at the storage load of getPayloadCache, with the host's       *)
(* upserts, removals and invalidations in between. lastOp keeps each       *)
(* call's position and what it read, and the edits made since an entry of  *)
(* the key was installed: the messages upserted (ups), the ids removed     *)
(* (rem) and the members upserted (mem).                                   *)

Calls == {1, 2}

IdleCall == [at |-> "idle"]

NoEdits(calls) == [calls |-> calls, ups |-> EmptyMap, rem |-> {}, mem |-> EmptyMap]

InitOverlap ==
    /\ storage \in {EmptyMap, [id \in {"m1"} |-> SeedStore[id]]}
    /\ storageMembers = EmptyMap
    /\ payloadCache = EmptyMap
    /\ lastOp = NoEdits([c \in Calls |-> IdleCall])
    /\ ret = NoRet
    /\ IdleDelta
    /\ IdleSess

\* A build* call enters getPayloadCache: with the entry cached it returns
\* it; otherwise it reads the channel's messages and the members and is
\* suspended at the read
BuildBegins ==
    \E c \in Calls :
        /\ lastOp.calls[c].at = "idle"
        /\ IF Key \in DOMAIN payloadCache
           THEN /\ lastOp' = lastOp
                /\ Returned("build", Some(getManifest(payloadCache[Key])))
           ELSE /\ lastOp' = [lastOp EXCEPT !.calls[c] =
                                 [at |-> "reading",
                                  messages |-> getChannelMessages(storage, SpaceId, ChannelId),
                                  members |-> MapValues(storageMembers)]]
                /\ Returned("await", None)
        /\ UNCHANGED <<cacheVars, deltaVars, sessVars>>

\* The read of a suspended call completes: it builds the entry from what it
\* read and installs it under the key, whatever the key holds by now
BuildResumes ==
    \E c \in Calls :
        /\ lastOp.calls[c].at = "reading"
        /\ payloadCache' = MapSet(payloadCache, Key,
                                  buildPayloadCache(SpaceId, ChannelId,
                                                    lastOp.calls[c].messages,
                                                    lastOp.calls[c].members))
        /\ lastOp' = IF Key \in DOMAIN payloadCache
                     THEN [lastOp EXCEPT !.calls[c] = IdleCall]
                     ELSE NoEdits([lastOp.calls EXCEPT ![c] = IdleCall])
        /\ Returned("build", Some(getManifest(payloadCache'[Key])))
        /\ UNCHANGED <<storage, storageMembers, deltaVars, sessVars>>

UpsertMessageDuring ==
    \E id \in {"m1", "m2"}, v \in {"a", "b"} :
        LET message == Msg(id, ChannelId, CreatedOf(id), v)
        IN  /\ payloadCache' = updateCacheWithMessage(payloadCache, SpaceId, ChannelId,
                                                      message)
            /\ lastOp' = IF Key \in DOMAIN payloadCache
                         THEN [lastOp EXCEPT !.ups = MapSet(@, id, message),
                                             !.rem = @ \ {id}]
                         ELSE lastOp
            /\ Returned("upsertMessage", None)
            /\ UNCHANGED <<storage, storageMembers, deltaVars, sessVars>>

RemoveMessageDuring ==
    \E id \in {"m1", "m2"} :
        /\ payloadCache' = removeCacheMessage(payloadCache, SpaceId, ChannelId, id)
        /\ lastOp' = IF Key \in DOMAIN payloadCache
                     THEN [lastOp EXCEPT !.ups = MapDelete(@, id), !.rem = @ \cup {id}]
                     ELSE lastOp
        /\ Returned("removeMessage", None)
        /\ UNCHANGED <<storage, storageMembers, deltaVars, sessVars>>

UpsertMemberDuring ==
    \E name \in {"x", "y"} :
        LET member == Member("a1", name)
        IN  /\ payloadCache' = updateCacheWithMember(payloadCache, SpaceId, ChannelId,
                                                     member)
            /\ lastOp' = IF Key \in DOMAIN payloadCache
                         THEN [lastOp EXCEPT !.mem = MapSet(@, "a1", member)]
                         ELSE lastOp
            /\ Returned("upsertMember", None)
            /\ UNCHANGED <<storage, storageMembers, deltaVars, sessVars>>

InvalidateDuring ==
    /\ payloadCache' = invalidateCache(payloadCache, SpaceId, ChannelId)
    /\ lastOp' = NoEdits(lastOp.calls)
    /\ Returned("invalidateCache", None)
    /\ UNCHANGED <<storage, storageMembers, deltaVars, sessVars>>

NextOverlap ==
    \/ BuildBegins
    \/ BuildResumes
    \/ UpsertMessageDuring
    \/ RemoveMessageDuring
    \/ UpsertMemberDuring
    \/ InvalidateDuring

SpecOverlap == InitOverlap /\ [][NextOverlap]_vars

\* C38: while an entry of the key is cached, every message upserted since
\* the entry was installed (and not removed since) has its digest in the
\* manifest, every id removed since is in no digest, every member upserted
\* since has its digest among the member digests, and the summary counts
\* them, also when two build* calls were suspended at the load together.
C38_NoCacheUpdateLost ==
    Key \in DOMAIN payloadCache =>
        LET digests == SeqToSet(getManifest(payloadCache[Key]).digests)
            memberDigests == SeqToSet(getMemberDigests(payloadCache[Key]))
            summary == getSummary(payloadCache[Key])
        IN  /\ \A id \in DOMAIN lastOp.ups :
                  createMessageDigest(lastOp.ups[id]) \in digests
            /\ \A id \in lastOp.rem : \A d \in digests : d.messageId # id
            /\ \A a \in DOMAIN lastOp.mem :
                  createMemberDigest(lastOp.mem[a]) \in memberDigests
            /\ summary.messageCount >= Cardinality(DOMAIN lastOp.ups)
            /\ summary.memberCount >= Cardinality(DOMAIN lastOp.mem)

----------------------------------------------------------------------------
(* SpecKeys: the cache entries of several (spaceId, channelId) pairs of one *)
(* service. Ids are strings, written as the sequence of their characters.  *)
(* lastOp keeps, for every pair, the entry the operations on that very     *)
(* pair have produced (None while it has none).                            *)

\* The spaces "a" and "a:b", the channels "c" and "b:c"
KeySpaceIds == {<<"a">>, <<"a", ":", "b">>}

KeyChannelIds == {<<"c">>, <<"b", ":", "c">>}

\* ("a", "c"), ("a", "b:c") and ("a:b", "c")
Pairs == (KeySpaceIds \X KeyChannelIds) \ {<<<<"a", ":", "b">>, <<"b", ":", "c">>>>}

\* A cache that holds the entry of pair p alone
Alone(p) ==
    IF lastOp[p] = None THEN EmptyMap
    ELSE MapSet(EmptyMap, getCacheKey(p[1], p[2]), lastOp[p][1])

\* The entry of pair p in cache pc: None when it has none
EntryOf(pc, p) ==
    IF getCacheKey(p[1], p[2]) \in DOMAIN pc THEN Some(pc[getCacheKey(p[1], p[2])])
    ELSE None

InitKeys ==
    /\ storage = EmptyMap
    /\ storageMembers = EmptyMap
    /\ payloadCache = EmptyMap
    /\ lastOp = [p \in Pairs |-> None]
    /\ ret = NoRet
    /\ IdleDelta
    /\ IdleSess

\* A build* call on the pair: getPayloadCache
GetOfPair ==
    \E p \in Pairs :
        /\ payloadCache' = getPayloadCache(payloadCache, storage, storageMembers,
                                           p[1], p[2])
        /\ lastOp' = [lastOp EXCEPT ![p] =
                         EntryOf(getPayloadCache(Alone(p), storage, storageMembers,
                                                 p[1], p[2]), p)]
        /\ Returned("get", None)
        /\ UNCHANGED <<storage, storageMembers, deltaVars, sessVars>>

UpsertMessageOfPair ==
    \E p \in Pairs :
        LET message == [Msg("m1", p[2], 1, "a") EXCEPT !.spaceId = p[1]]
        IN  /\ payloadCache' = updateCacheWithMessage(payloadCache, p[1], p[2], message)
            /\ lastOp' = [lastOp EXCEPT ![p] =
                             EntryOf(updateCacheWithMessage(Alone(p), p[1], p[2], message), p)]
            /\ Returned("upsertMessage", None)
            /\ UNCHANGED <<storage, storageMembers, deltaVars, sessVars>>

RemoveMessageOfPair ==
    \E p \in Pairs :
        /\ payloadCache' = removeCacheMessage(payloadCache, p[1], p[2], "m1")
        /\ lastOp' = [lastOp EXCEPT ![p] =
                         EntryOf(removeCacheMessage(Alone(p), p[1], p[2], "m1"), p)]
        /\ Returned("removeMessage", None)
        /\ UNCHANGED <<storage, storageMembers, deltaVars, sessVars>>

UpsertMemberOfPair ==
    \E p \in Pairs :
        /\ payloadCache' = updateCacheWithMember(payloadCache, p[1], p[2], Member("a1", "x"))
        /\ lastOp' = [lastOp EXCEPT ![p] =
                         EntryOf(updateCacheWithMember(Alone(p), p[1], p[2],
                                                       Member("a1", "x")), p)]
        /\ Returned("upsertMember", None)
        /\ UNCHANGED <<storage, storageMembers, deltaVars, sessVars>>

\* invalidateCache(spaceId, channelId)
InvalidateOfPair ==
    \E p \in Pairs :
        /\ payloadCache' = invalidateCache(payloadCache, p[1], p[2])
        /\ lastOp' = [lastOp EXCEPT ![p] = None]
        /\ Returned("invalidateCache", None)
        /\ UNCHANGED <<storage, storageMembers, deltaVars, sessVars>>

\* invalidateCache(spaceId)
InvalidateOfSpace ==
    \E sp \in KeySpaceIds :
        /\ payloadCache' = invalidateCacheOfSpace(payloadCache, sp)
        /\ lastOp' = [p \in Pairs |-> IF p[1] = sp THEN None ELSE lastOp[p]]
        /\ Returned("invalidateCache", None)
        /\ UNCHANGED <<storage, storageMembers, deltaVars, sessVars>>

NextKeys ==
    \/ GetOfPair
    \/ UpsertMessageOfPair
    \/ RemoveMessageOfPair
    \/ UpsertMemberOfPair
    \/ InvalidateOfPair
    \/ InvalidateOfSpace

SpecKeys == InitKeys /\ [][NextKeys]_vars

\* C39: for all pairs of string ids, the entry a pair has in the cache is
\* the one produced by the operations on that exact pair: get, upsertMessage,
\* removeMessage, upsertMember and invalidateCache(space, channel) of
\* another pair never create, change or remove it, and invalidateCache(space)
\* removes the entries of that space and of no other.
C39_EntriesIsolatedPerPair ==
    \A p \in Pairs : EntryOf(payloadCache, p) = lastOp[p]

----------------------------------------------------------------------------
(* SpecReact: a recipient runs applyReactionDelta on one reaction delta    *)
(* received from a peer.                                                   *)

\* The deltas a peer may send: buildReactionDelta copies the memberIds of
\* the reactions the peer stores, as they are
ReceivedReactionDeltas ==
    {[spaceId |-> SpaceId, channelId |-> ChannelId, added |-> a, removed |-> r] :
        a \in {<<>>,
               <<ReactionChange("m1", "e1", <<"u1">>)>>,
               <<ReactionChange("m1", "e1", <<"u2", "u3">>),
                 ReactionChange("m1", "e2", <<"u1">>)>>,
               <<ReactionChange("m1", "e2", <<"u1", "u1">>)>>,
               <<ReactionChange("m1", "e2", <<>>)>>,
               <<ReactionChange("m2", "e1", <<"u1">>)>>},
        r \in {<<>>,
               <<ReactionChange("m1", "e1", <<"u1">>)>>,
               <<ReactionChange("m1", "e1", <<"u1", "u2">>)>>,
               <<ReactionChange("m2", "e1", <<"u1">>)>>}}

InitReact ==
    /\ IdleCache
    /\ IdleSess
    /\ \E v1 \in {"none", "a", "b", "b0"}, v2 \in {"none", "b"} :
          rcptStorage = StoreOf([id \in MessageIds |->
                                    CASE id = "m1" -> v1 [] id = "m2" -> v2
                                      [] OTHER -> "none"])
    /\ rcptMembers = EmptyMap
    /\ \E d \in ReceivedReactionDeltas :
          payloads = <<[type |-> "sync-delta", messageDelta |-> None,
                        reactionDelta |-> Some(d), memberDelta |-> None,
                        peerMapDelta |-> None, isFinal |-> FALSE]>>
    /\ applied = 0
    /\ tombstones = <<>>
    /\ rcptManifest = None
    /\ rcptPeerIds = <<>>
    /\ peerEntries = EmptyMap
    /\ diff = NoDiff
    /\ lastOp = "init"
    /\ ret = NoRet

ApplyReactionDelta ==
    /\ applied = 0
    /\ rcptStorage' = applyReactionDelta(rcptStorage, payloads[1].reactionDelta[1])
    /\ applied' = 1
    /\ lastOp' = "applyReactionDelta"
    /\ UNCHANGED <<cacheVars, tombstones, rcptManifest, rcptPeerIds, peerEntries,
                   rcptMembers, diff, payloads, sessVars, ret>>

NextReact == ApplyReactionDelta

SpecReact == InitReact /\ [][NextReact]_vars

\* The entries of a reaction delta, additions and removals
ChangesOf(delta) == SeqToSet(delta.added) \cup SeqToSet(delta.removed)

\* The list has no element twice
NoDuplicates(list) == Cardinality(SeqToSet(list)) = Len(list)

\* C40: after applyReactionDelta, on every stored message an entry of the
\* delta names, the reaction of that entry's emoji (if the message has one)
\* has count equal to the number of its memberIds and no member id twice,
\* and no reaction of the message has an empty memberIds list; an entry
\* whose message is not in storage causes no write: the message is still
\* absent, and the messages no entry names are as they were.
C40_TouchedReactionsWellFormed ==
    [][lastOp' = "applyReactionDelta" =>
          LET delta == payloads[1].reactionDelta[1]
              named == {c.messageId : c \in ChangesOf(delta)}
          IN  /\ DOMAIN rcptStorage' = DOMAIN rcptStorage
              /\ \A id \in DOMAIN rcptStorage \ named : rcptStorage'[id] = rcptStorage[id]
              /\ \A c \in ChangesOf(delta) :
                    c.messageId \in DOMAIN rcptStorage =>
                        LET reactions == rcptStorage'[c.messageId].reactions
                        IN  \A i \in 1..Len(reactions) :
                                /\ reactions[i].memberIds # <<>>
                                /\ reactions[i].emojiId = c.emojiId =>
                                      /\ reactions[i].count = Len(reactions[i].memberIds)
                                      /\ NoDuplicates(reactions[i].memberIds)]_vars

====
